---- MODULE Spec2Model ----
(***************************************************************************)
(* Rating-resolution engine of the Netflix Ratings Overlay service worker  *)
(* (src/scripts/package.js, lines 468-837): cache store, quota tracker,    *)
(* matcher/scorer and resolver, as a state machine over chrome.storage.    *)
(*                                                                         *)
(* Every `await` of a storage operation or of fetch() is one step: the     *)
(* operation's effect together with the synchronous continuation that      *)
(* follows it, up to the point where the next operation is issued.         *)
(***************************************************************************)
EXTENDS Integers, Sequences, FiniteSets, TLC

(***************************************************************************)
(* Program constants.  The source values are in the comments; the model    *)
(* scales them down so that the limits are reached within the bounds.      *)
(***************************************************************************)
CACHE_TTL_MS == 3
\* 7 * 24 * 60 * 60 * 1000 in the source, in clock ticks here

MAX_CACHE_SIZE == 2
\* 1000 in the source

PRUNE_INTERVAL == 2
\* 50 in the source; it divides MAX_CACHE_SIZE there and here

API_DAILY_LIMIT == 2
\* 1000 in the source

KEY_TITLE_MAX == 100
\* title.toLowerCase().substring(0, 100)

(***************************************************************************)
(* Bounds of the model.                                                    *)
(***************************************************************************)
NumProcs == 2
\* concurrent handleFetchRating invocations

MaxNow == 5
\* Date.now() ranges over 1..MaxNow

MaxDay == 1
\* new Date().toDateString() ranges over 0..MaxDay

Procs == 1..NumProcs

Min(a, b) == IF a <= b THEN a ELSE b

Max(a, b) == IF a >= b THEN a ELSE b

(***************************************************************************)
(* Strings are sequences of one-character strings.                         *)
(***************************************************************************)
ToLowerChar(c) ==
  CASE c = "A" -> "a"
    [] c = "B" -> "b"
    [] c = "C" -> "c"
    [] c = "D" -> "d"
    [] OTHER -> c

toLowerCase(s) == [i \in 1..Len(s) |-> ToLowerChar(s[i])]

IsSpace(c) == c = " "

\* [a-z0-9\s]: what the first replace() of normalize keeps
IsKept(c) == c \in {"a", "b", "c", "d", "0", "1", " "}

\* s.replace(/[^a-z0-9\s]/g, '')
StripOther(s) == SelectSeq(s, IsKept)

\* s.replace(/\s+/g, ' '): every run of whitespace becomes one space
RECURSIVE CollapseSpaces(_)
CollapseSpaces(s) ==
  IF Len(s) = 0 THEN <<>>
  ELSE IF IsSpace(Head(s))
       THEN IF Len(s) > 1 /\ IsSpace(s[2])
            THEN CollapseSpaces(Tail(s))
            ELSE <<" ">> \o CollapseSpaces(Tail(s))
       ELSE <<Head(s)>> \o CollapseSpaces(Tail(s))

\* s.trim(), after the collapse: at most one space at either end
Trim(s) ==
  LET a == IF Len(s) > 0 /\ IsSpace(s[1]) THEN 2 ELSE 1
      b == IF Len(s) > 0 /\ IsSpace(s[Len(s)]) THEN Len(s) - 1 ELSE Len(s)
  IN  IF a > b THEN <<>> ELSE SubSeq(s, a, b)

normalize(s) == Trim(CollapseSpaces(StripOther(toLowerCase(s))))

\* q.includes(r)
Includes(q, r) ==
  \E i \in 0..(Len(q) - Len(r)) : SubSeq(q, i + 1, i + Len(r)) = r

\* s.split(' '): the pieces between single spaces (empty pieces included)
RECURSIVE Split(_)
Split(s) ==
  IF \A i \in 1..Len(s) : ~IsSpace(s[i]) THEN <<s>>
  ELSE LET i == CHOOSE j \in 1..Len(s) :
                   IsSpace(s[j]) /\ \A k \in 1..(j - 1) : ~IsSpace(s[k])
       IN  <<SubSeq(s, 1, i - 1)>> \o Split(SubSeq(s, i + 1, Len(s)))

LongWord(w) == Len(w) > 1

\* s.split(' ').filter(w => w.length > 1)
Words(s) == SelectSeq(Split(s), LongWord)

\* qw.filter(w => rw.includes(w)).length
Overlap(qw, rw) ==
  Cardinality({i \in 1..Len(qw) : \E j \in 1..Len(rw) : rw[j] = qw[i]})

\* isTitleMatch with the containment tested one way only: q.includes(r)
isTitleMatchOneWay(query, result) ==
  IF Len(query) = 0 \/ Len(result) = 0 THEN FALSE
  ELSE LET q  == normalize(query)
           r  == normalize(result)
           qw == Words(q)
           rw == Words(r)
       IN  IF q = r THEN TRUE
           ELSE IF Includes(q, r) THEN TRUE
           ELSE IF Len(qw) = 0 \/ Len(rw) = 0 THEN FALSE
           ELSE 10 * Overlap(qw, rw) >= 7 * Max(Len(qw), Len(rw))

isTitleMatch(query, result) ==
  IF Len(query) = 0 \/ Len(result) = 0 THEN FALSE
  ELSE LET q  == normalize(query)
           r  == normalize(result)
           qw == Words(q)
           rw == Words(r)
       IN  IF q = r THEN TRUE
           ELSE IF Includes(q, r) \/ Includes(r, q) THEN TRUE
           ELSE IF Len(qw) = 0 \/ Len(rw) = 0 THEN FALSE
           ELSE 10 * Overlap(qw, rw) >= 7 * Max(Len(qw), Len(rw))

\* A similarity is the fraction <<numerator, denominator>>, denominator > 0.
titleSimilarity(query, result) ==
  IF Len(query) = 0 \/ Len(result) = 0 THEN <<0, 1>>
  ELSE LET q  == normalize(query)
           r  == normalize(result)
           qw == Words(q)
           rw == Words(r)
       IN  IF q = r THEN <<1, 1>>
           ELSE IF Includes(q, r) \/ Includes(r, q)
                \* 0.8 + 0.2 * min / max = (4 * max + min) / (5 * max);
                \* max > 0 here, since q # r
                THEN <<4 * Max(Len(q), Len(r)) + Min(Len(q), Len(r)),
                       5 * Max(Len(q), Len(r))>>
           ELSE IF Len(qw) = 0 \/ Len(rw) = 0 THEN <<0, 1>>
           ELSE <<Overlap(qw, rw), Max(Len(qw), Len(rw))>>

(***************************************************************************)
(* Upstream (OMDb) data.  A JSON object is a record with every field the   *)
(* code reads; "undefined" stands for a field the object does not carry.   *)
(***************************************************************************)
NoData ==
  [Response |-> "undefined", Error |-> "undefined", Title |-> <<>>,
   Year |-> "undefined", Type |-> "undefined", imdbID |-> "undefined",
   imdbRating |-> "undefined", Ratings |-> <<>>, Poster |-> "undefined",
   Search |-> <<>>]

\* null, where the code holds "a record or null"
Null == [NoData EXCEPT !.Response = "null"]

NotFoundData ==
  [NoData EXCEPT !.Response = "False", !.Error = "Movie not found!"]

InvalidKeyData ==
  [NoData EXCEPT !.Response = "False", !.Error = "Invalid API key!"]

Movie(title, year, id, rating, ratings, poster, type) ==
  [NoData EXCEPT !.Response = "True", !.Title = title, !.Year = year,
                 !.Type = type, !.imdbID = id, !.imdbRating = rating,
                 !.Ratings = ratings, !.Poster = poster]

\* The records the upstream API can answer with.
Catalog ==
  { Movie(<<"a", "b">>, "2005", "tt1", "8.8", <<>>, "p", "movie"),
    Movie(<<"a", "b">>, "2001", "tt2", "N/A", <<>>, "N/A", "series"),
    Movie(<<"c", "d">>, "2005", "tt3", "7.0",
          <<[Source |-> "Rotten Tomatoes", Value |-> "90%"]>>, "p", "series") }

\* An entry of a search response's Search array: no rating fields
Light(c) == [c EXCEPT !.Response = "undefined", !.imdbRating = "undefined",
                      !.Ratings = <<>>]

ById(id) == CHOOSE c \in Catalog : c.imdbID = id

SearchLists ==
  { <<Light(ById("tt3"))>>,
    <<Light(ById("tt2")), Light(ById("tt1"))>> }

SearchData(list) == [NoData EXCEPT !.Response = "True", !.Search = list]

(***************************************************************************)
(* Queries of the content script: {title, year, mediaType}; "" is the      *)
(* absent (falsy) year or mediaType.                                       *)
(***************************************************************************)
Queries ==
  { [title |-> <<"A", "b">>, year |-> "2005", mediaType |-> "movie"],
    [title |-> <<"A", "b">>, year |-> "2005", mediaType |-> ""],
    [title |-> <<"A", "b">>, year |-> "", mediaType |-> ""] }

NoQuery == [title |-> <<>>, year |-> "", mediaType |-> ""]

\* x is falsy: !x
Falsy(x) == x \in {"", "null", "undefined"}

\* s.substring(0, n)
Substring0(s, n) == SubSeq(s, 1, Min(Len(s), n))

CACHE_KEY_PREFIX == <<"r", "a", "t", "i", "n", "g", "_">>

\* `${CACHE_KEY_PREFIX}${keyTitle}_${year || ''}_${mediaType || 'any'}`
CacheKey(q) ==
  CACHE_KEY_PREFIX \o Substring0(toLowerCase(q.title), KEY_TITLE_MAX)
    \o <<"_", q.year, "_", IF Falsy(q.mediaType) THEN "any" ELSE q.mediaType>>

\* parseInt of the year strings in use
ParseInt(y) ==
  CASE y = "2001" -> 2001
    [] y = "2003" -> 2003
    [] y = "2004" -> 2004
    [] y = "2005" -> 2005
    [] OTHER -> 0

Abs(n) == IF n < 0 THEN 0 - n ELSE n

(***************************************************************************)
(* pickBest.  A score is a fraction <<numerator, denominator>>.            *)
(***************************************************************************)
Score(queryTitle, queryYear, c) ==
  LET sim   == titleSimilarity(queryTitle, c.Title)
      diff  == Abs(ParseInt(c.Year) - ParseInt(queryYear))
      yearB == IF ~Falsy(queryYear) /\ ~Falsy(c.Year)
               THEN IF diff = 0 THEN 30
                    ELSE IF diff = 1 THEN 20
                    ELSE IF diff <= 3 THEN 10 ELSE 0
               ELSE 0
      rateB == IF ~Falsy(c.imdbRating) /\ c.imdbRating # "N/A" THEN 10 ELSE 0
      postB == IF ~Falsy(c.Poster) /\ c.Poster # "N/A" THEN 5 ELSE 0
      typeB == IF c.Type = "movie" THEN 3 ELSE 0
  IN  <<50 * sim[1] + sim[2] * (yearB + rateB + postB + typeB), sim[2]>>

\* score >= bestScore: a later candidate of equal score replaces the best
GreaterOrEqual(a, b) == a[1] * b[2] >= b[1] * a[2]

\* score > bestScore
Greater(a, b) == a[1] * b[2] > b[1] * a[2]

\* the loop of pickBest over candidates[i..], with the best so far
RECURSIVE PickLoop(_, _, _, _, _, _)
PickLoop(queryTitle, queryYear, candidates, i, bestScore, bestCandidate) ==
  IF i > Len(candidates) THEN bestCandidate
  ELSE LET sc == Score(queryTitle, queryYear, candidates[i])
       IN  IF Greater(sc, bestScore)
           THEN PickLoop(queryTitle, queryYear, candidates, i + 1,
                         sc, candidates[i])
           ELSE PickLoop(queryTitle, queryYear, candidates, i + 1,
                         bestScore, bestCandidate)

pickBest(queryTitle, queryYear, candidates) ==
  IF Len(candidates) = 0 THEN Null
  ELSE IF Len(candidates) = 1 THEN candidates[1]
  ELSE PickLoop(queryTitle, queryYear, candidates, 1, <<0 - 1, 1>>, Null)

(***************************************************************************)
(* Cache entries and results of a resolve.                                 *)
(***************************************************************************)
NoEntry ==
  [notFound |-> FALSE, imdbRating |-> "undefined",
   rottenTomatoes |-> "undefined", title |-> <<>>, year |-> "undefined",
   type |-> "undefined", imdbID |-> "undefined", cachedAt |-> 0]

\* { notFound: true, title, cachedAt: Date.now() }
MissRecord(title, t) ==
  [NoEntry EXCEPT !.notFound = TRUE, !.title = title, !.cachedAt = t]

\* the Ratings array never searched
NoRottenTomatoes(ratings) == "null"

\* ratings.find(r => r.Source === 'Rotten Tomatoes')?.Value ?? null
extractRT(ratings) ==
  IF \E i \in 1..Len(ratings) : ratings[i].Source = "Rotten Tomatoes"
  THEN ratings[CHOOSE i \in 1..Len(ratings) :
                 /\ ratings[i].Source = "Rotten Tomatoes"
                 /\ \A j \in 1..(i - 1) : ratings[j].Source # "Rotten Tomatoes"].Value
  ELSE "null"

\* the record processAndCache writes and returns for `data` at time t
Processed(data, t) ==
  LET imdbRating     == IF data.imdbRating # "N/A" THEN data.imdbRating ELSE "null"
      rottenTomatoes == extractRT(data.Ratings)
  IN  IF Falsy(imdbRating) /\ Falsy(rottenTomatoes)
      THEN MissRecord(data.Title, t)
      ELSE [notFound |-> FALSE, imdbRating |-> imdbRating,
            rottenTomatoes |-> rottenTomatoes, title |-> data.Title,
            year |-> data.Year, type |-> data.Type, imdbID |-> data.imdbID,
            cachedAt |-> t]

\* What handleFetchRating resolves to: a record, or { error }
Value(entry) == [error |-> "", value |-> entry]

\* a failure handed on without a message
UntypedFailure(msg) == [error |-> "undefined", value |-> NoEntry]

ErrorResult(msg) == [error |-> msg, value |-> NoEntry]

NoResult == [error |-> "pending", value |-> NoEntry]

ERR_NO_KEY == "API key not configured. Click the extension icon to add your OMDb API key."

ERR_LIMIT == "Daily API limit reached (1,000 requests). Ratings will resume tomorrow."

ERR_INVALID_KEY == "Invalid API key. Please update your key in the extension settings."

ERR_TIMEOUT == "Request timed out. OMDb API may be slow - please try again."

\* err.message of a rejected fetch() or res.json()
ERR_NETWORK == "Failed to fetch"

(***************************************************************************)
(* State.                                                                  *)
(***************************************************************************)
VARIABLES
  cache,          \* chrome.storage.local, the keys that start with rating_
  apiCallsToday,  \* chrome.storage.local.apiCallsToday (0: not stored)
  apiCallsDate,   \* chrome.storage.local.apiCallsDate: <<>> or <<day>>
  writeCount,     \* chrome.storage.local._nro_cacheWriteCount (0: not stored)
  apiKey,         \* chrome.storage.local.apiKey ("": not stored)
  lock,           \* _counterLock: 0 is null, p the promise made by p
  now,            \* Date.now()
  today,          \* new Date().toDateString()
  proc,           \* the invocations in flight: position and local variables
  issued,         \* upstream HTTP calls issued during `today` (history)
  hist,           \* <<key, cachedAt>> of the direct writeCache calls (history)
  page            \* the content script of one Netflix tab: its mutable state

vars == <<cache, apiCallsToday, apiCallsDate, writeCount, apiKey, lock, now,
          today, proc, issued, hist, page>>

store == <<cache, apiCallsToday, apiCallsDate, writeCount, apiKey>>

Idle ==
  [pc |-> "idle", q |-> NoQuery, key |-> <<>>, stage |-> "", day |-> 0,
   data |-> NoData, exact |-> Null, best |-> Null, cnt |-> 0,
   entry |-> NoEntry, wc |-> 0, toRemove |-> {}, timer |-> FALSE,
   result |-> NoResult,
   calls |-> 0, incs |-> 0, hit |-> FALSE, nf |-> 0, since |-> <<>>,
   puts |-> 0]

\* timer: the abort timer of omdbFetch is armed.
\* The last six fields are history: the upstream calls the invocation issued,
\* the increments it completed, whether it returned the cached entry, the calls
\* answered "not found", <<day>> when it was called on `day` with
\* getApiCallCount() at the limit, and the cache entries it has stored.

\* The content script after its declarations (let enabled = true, ...):
\* requests holds the FETCH_RATING messages awaiting their response, each with
\* the seq it took; sent and rendered are history: the requests issued so far
\* and the request whose response was last handed to showOverlay (0: none).
\* storedEnabled is the `enabled` setting in chrome.storage.local and initRead
\* the storage read init() is waiting for.
PageInit ==
  [enabled |-> TRUE, hoveredEl |-> 0, hoveredTitle |-> 0, opacity |-> 0,
   requestSeq |-> 0, hoverTimer |-> 0, hideTimer |-> FALSE,
   storedEnabled |-> TRUE, initRead |-> FALSE, requests |-> {}, sent |-> 0,
   rendered |-> 0]

\* storage.set({[k]: e})
Put(c, k, e) == [x \in (DOMAIN c) \cup {k} |-> IF x = k THEN e ELSE c[x]]

\* storage.remove(keys)
Remove(c, keys) == [x \in (DOMAIN c) \ keys |-> c[x]]

\* Date.now() - entry.cachedAt >= CACHE_TTL_MS: the boundary off by one
ExpiredAtTtl(entry, t) == t - entry.cachedAt >= CACHE_TTL_MS

\* Date.now() - entry.cachedAt > CACHE_TTL_MS
Expired(entry, t) == t - entry.cachedAt > CACHE_TTL_MS

\* the stored count taken whatever the stored date
CountStored(day) == apiCallsToday

\* the stored count taken whenever a date is stored, whatever the date
CountCarried(day) == IF apiCallsDate = <<>> THEN 0 ELSE apiCallsToday

\* apiCallsDate === today ? (apiCallsToday || 0) : 0
CountFor(day) == IF apiCallsDate = <<day>> THEN apiCallsToday ELSE 0

\* count > API_DAILY_LIMIT: the limit's check off by one
OverLimitLate(count) == count > API_DAILY_LIMIT

\* count >= API_DAILY_LIMIT
OverLimit(count) == count >= API_DAILY_LIMIT

\* incrementApiCalls without the wait on _counterLock
LockIgnored == TRUE

\* while (_counterLock) await _counterLock: the loop is left
LockFree == lock = 0

\* data.Response === 'True' ? data : null
Found(data) == IF data.Response = "True" THEN data ELSE Null

\* the invalid-credential response taken for an ordinary "not found"
NeverInvalidKey(data) == FALSE

\* data.Response === 'False' && data.Error?.toLowerCase().includes('invalid api key')
IsInvalidKey(data) == data.Response = "False" /\ data.Error = "Invalid API key!"

(***************************************************************************)
(* The local state an invocation moves to.                                 *)
(***************************************************************************)
\* the invocation returns res
Finish(pr, res) ==
  [Idle EXCEPT !.pc = "done", !.q = pr.q, !.key = pr.key, !.result = res,
               !.calls = pr.calls, !.incs = pr.incs, !.hit = pr.hit,
               !.nf = pr.nf, !.since = pr.since, !.puts = pr.puts]


\* omdbFetch(params) is called: the abort timer is set, fetch() is issued
Fetch(pr, stage) ==
  [pr EXCEPT !.pc = "fetch", !.stage = stage, !.calls = @ + 1,
             !.data = NoData, !.day = 0, !.timer = TRUE]

\* isOverLimit() is called: `today` is taken, the storage read is issued
AskLimit(pr, stage, day) ==
  [pr EXCEPT !.pc = "isOverLimit", !.stage = stage, !.day = day,
             !.data = NoData]

\* writeCache(key, entry) is called
CallWriteCache(pr, entry) ==
  [pr EXCEPT !.pc = "wcRead", !.stage = "", !.day = 0, !.data = NoData,
             !.exact = Null, !.best = Null, !.entry = entry]

\* the entry of a cache hit returned with a refreshed cachedAt
HitTouched(pr, entry) ==
  Finish([pr EXCEPT !.hit = TRUE], Value([entry EXCEPT !.cachedAt = now]))

\* the limit checked before the cached entry is returned
HitUnlessOverLimit(pr, entry) ==
  IF OverLimit(CountFor(today)) THEN Finish(pr, ErrorResult(ERR_LIMIT))
  ELSE Finish([pr EXCEPT !.hit = TRUE], Value(entry))

\* handleFetchRating: if (cached) return cached
Hit(pr, entry) == Finish([pr EXCEPT !.hit = TRUE], Value(entry))

\* processAndCache(cacheKey, data)
processAndCache(pr, data, t) == CallWriteCache(pr, Processed(data, t))

\* the miss returned without writeCache
MissNotCached(pr, t) == Finish(pr, Value(MissRecord(pr.q.title, t)))

\* const miss = { notFound: true, title, cachedAt: Date.now() }; writeCache
CacheMiss(pr, t) == CallWriteCache(pr, MissRecord(pr.q.title, t))

\* handleFetchRating after queryOMDb returned result
Obtained(pr, result, t) ==
  IF result # Null THEN processAndCache(pr, result, t) ELSE CacheMiss(pr, t)

\* a failed call taken as "not found": the miss is cached
ThrownAsMiss(pr, msg) == CacheMiss(pr, now)

\* omdbFetch throws; handleFetchRating's catch returns { error: err.message }
Thrown(pr, msg) == Finish(pr, ErrorResult(msg))

\* any record found taken as a match of the title
AnyRecord(pr, rec) == rec # Null

\* exact && isTitleMatch(title, exact.Title)
TitleOk(pr, rec) == rec # Null /\ isTitleMatch(pr.q.title, rec.Title)

\* smartSearch whatever the metadata
AlwaysSmartSearch(pr) == Fetch(pr, "pref")

\* queryOMDb: the first call of the strategy the metadata selects
queryOMDb(pr) ==
  IF ~Falsy(pr.q.year) /\ ~Falsy(pr.q.mediaType) THEN Fetch(pr, "exact")
  ELSE IF ~Falsy(pr.q.year) THEN Fetch(pr, "movie")
  ELSE Fetch(pr, "pref")

\* searchBothTypes with the title gate of smartSearch on the movie record
AfterMovieGated(pr, t, day) ==
  IF TitleOk(pr, Found(pr.data))
  THEN Obtained(pr, Found(pr.data), t)
  ELSE AskLimit(pr, "beforeSeries", day)

\* searchBothTypes: if (movie) return movie; if (await isOverLimit()) ...
AfterMovie(pr, t, day) ==
  IF Found(pr.data) # Null
  THEN Obtained(pr, Found(pr.data), t)
  ELSE AskLimit(pr, "beforeSeries", day)

\* searchBothTypes, smartSearch: if (await isOverLimit()) return null, and
\* handleFetchRating's handling of the null
QuotaCut(pr, t) == Obtained(pr, Null, t)

\* the keyword search issued whatever isOverLimit() returned
SearchAnyway(pr, over, t) == Fetch(pr, "search")

\* smartSearch: if (await isOverLimit()) return null; omdbFetch(searchParams)
BeforeSearch(pr, over, t) ==
  IF over THEN QuotaCut(pr, t) ELSE Fetch(pr, "search")

\* The continuation of `await omdbFetch(...)` once incrementApiCalls is done.
AfterFetch(pr, t, day) ==
  IF IsInvalidKey(pr.data) THEN Thrown(pr, ERR_INVALID_KEY)
  ELSE CASE pr.stage \in {"exact", "series", "detail"} ->
              Obtained(pr, Found(pr.data), t)
         [] pr.stage = "movie" -> AfterMovie(pr, t, day)
         [] pr.stage = "pref" ->
              AskLimit([pr EXCEPT !.exact = Found(pr.data)], "beforeAlt", day)
         [] pr.stage = "alt" ->
              LET alt == Found(pr.data)
              IN  IF TitleOk(pr, alt) /\ TitleOk(pr, pr.exact)
                  THEN Obtained(pr, pickBest(pr.q.title, pr.q.year,
                                             <<pr.exact, alt>>), t)
                  ELSE IF TitleOk(pr, alt) THEN Obtained(pr, alt, t)
                  ELSE IF TitleOk(pr, pr.exact) THEN Obtained(pr, pr.exact, t)
                  ELSE AskLimit(pr, "beforeSearch", day)
         [] pr.stage = "search" ->
              IF pr.data.Response # "True" \/ Len(pr.data.Search) = 0
              THEN Obtained(pr, Null, t)
              ELSE LET best == pickBest(pr.q.title, pr.q.year, pr.data.Search)
                   IN  IF best = Null THEN Obtained(pr, Null, t)
                       ELSE AskLimit([pr EXCEPT !.best = best],
                                     "beforeDetail", day)
         [] OTHER -> Finish(pr, NoResult)

\* The continuation of `await isOverLimit()`.
AfterLimit(pr, over, t, day) ==
  CASE pr.stage = "beforeSeries" ->
         IF over THEN QuotaCut(pr, t) ELSE Fetch(pr, "series")
    [] pr.stage = "beforeAlt" ->
         IF ~over THEN Fetch(pr, "alt")
         ELSE IF TitleOk(pr, pr.exact) THEN Obtained(pr, pr.exact, t)
         ELSE AskLimit(pr, "beforeSearch", day)
    [] pr.stage = "beforeSearch" -> BeforeSearch(pr, over, t)
    [] pr.stage = "beforeDetail" ->
         IF over THEN QuotaCut(pr, t) ELSE Fetch(pr, "detail")

\* the type parameter of the exact query in flight
TypeParam(pr) ==
  CASE pr.stage = "exact" -> pr.q.mediaType
    [] pr.stage = "movie" -> "movie"
    [] pr.stage = "series" -> "series"
    [] pr.stage = "pref" -> IF Falsy(pr.q.mediaType) THEN "movie" ELSE pr.q.mediaType
    [] pr.stage = "alt" ->
         IF (IF Falsy(pr.q.mediaType) THEN "movie" ELSE pr.q.mediaType) = "movie"
         THEN "series" ELSE "movie"
    [] OTHER -> ""

\* The parsed bodies the upstream API may answer the call in flight with.
Answers(pr) ==
  {NotFoundData, InvalidKeyData} \cup
  CASE pr.stage = "search" -> {SearchData(l) : l \in SearchLists}
    [] pr.stage = "detail" -> {c \in Catalog : c.imdbID = pr.best.imdbID}
    [] OTHER -> {c \in Catalog : c.Type = TypeParam(pr)}

\* The ways fetch() or res.json() may throw: the abort timer, the network
Failures == {ERR_TIMEOUT, ERR_NETWORK}

(***************************************************************************)
(* Actions.                                                                *)
(***************************************************************************)
Set(p, pr) == proc' = [proc EXCEPT ![p] = pr]

\* the step issued a fetch(): one more upstream call today
Count(pr) == issued' = issued + (IF pr.pc = "fetch" THEN 1 ELSE 0)

\* handleFetchRating({title, year, mediaType}) up to the return of getCached's
\* storage read
HandleFetchRating(p, q) ==
  /\ proc[p].pc = "idle"
  /\ LET key == CacheKey(q)
         pr  == [proc[p] EXCEPT !.q = q, !.key = key,
                                !.since = IF CountFor(today) >= API_DAILY_LIMIT
                                          THEN <<today>> ELSE <<>>]
     IN  IF key \notin DOMAIN cache
         THEN Set(p, [pr EXCEPT !.pc = "getKey"])
         ELSE IF Expired(cache[key], now)
         THEN Set(p, [pr EXCEPT !.pc = "removeExpired"])
         ELSE Set(p, Hit(pr, cache[key]))
  /\ UNCHANGED <<store, lock, now, today, issued, hist, page>>

\* getCached: await chrome.storage.local.remove(key); return null
RemoveExpired(p) ==
  /\ proc[p].pc = "removeExpired"
  /\ cache' = Remove(cache, {proc[p].key})
  /\ Set(p, [proc[p] EXCEPT !.pc = "getKey"])
  /\ UNCHANGED <<apiCallsToday, apiCallsDate, writeCount, apiKey, lock, now,
                 today, issued, hist, page>>

\* (await chrome.storage.local.get('apiKey')).apiKey
GetApiKey(p) ==
  /\ proc[p].pc = "getKey"
  /\ IF Falsy(apiKey)
     THEN Set(p, Finish(proc[p], ErrorResult(ERR_NO_KEY)))
     ELSE Set(p, [proc[p] EXCEPT !.pc = "checkLimit", !.day = today])
  /\ UNCHANGED <<store, lock, now, today, issued, hist, page>>

\* if (await getApiCallCount() >= API_DAILY_LIMIT) return { error }; queryOMDb
CheckLimit(p) ==
  /\ proc[p].pc = "checkLimit"
  /\ LET pr == IF OverLimit(CountFor(proc[p].day))
               THEN Finish(proc[p], ErrorResult(ERR_LIMIT))
               ELSE queryOMDb(proc[p])
     IN  Set(p, pr) /\ Count(pr)
  /\ UNCHANGED <<store, lock, now, today, hist, page>>

\* omdbFetch: fetch() and res.json() settle
OmdbResponse(p) ==
  /\ proc[p].pc = "fetch"
  /\ \/ \E data \in Answers(proc[p]) :
          Set(p, [proc[p] EXCEPT !.pc = "incAcquire", !.data = data,
                                 !.timer = FALSE,
                                 !.nf = @ + (IF data = NotFoundData THEN 1 ELSE 0)])
     \/ \E msg \in Failures :
          Set(p, Thrown(proc[p], msg))
  /\ UNCHANGED <<store, lock, now, today, issued, hist, page>>

\* the promise made but not stored in _counterLock
NoLock(p) == 0

\* _counterLock = new Promise(r => { unlock = r; })
NewLock(p) == p

\* incrementApiCalls: the lock is taken, `today` is taken, the read is issued
IncAcquire(p) ==
  /\ proc[p].pc = "incAcquire"
  /\ LockFree
  /\ lock' = NewLock(p)
  /\ Set(p, [proc[p] EXCEPT !.pc = "incRead", !.day = today])
  /\ UNCHANGED <<store, now, today, issued, hist, page>>

\* const count = apiCallsDate === today ? (apiCallsToday || 0) + 1 : 1
IncRead(p) ==
  /\ proc[p].pc = "incRead"
  /\ Set(p, [proc[p] EXCEPT !.pc = "incWrite",
                            !.cnt = CountFor(proc[p].day) + 1])
  /\ UNCHANGED <<store, lock, now, today, issued, hist, page>>

\* storage.set({ apiCallsToday: count, apiCallsDate: today }); finally: unlock
IncWrite(p) ==
  /\ proc[p].pc = "incWrite"
  /\ apiCallsToday' = proc[p].cnt
  /\ apiCallsDate' = <<proc[p].day>>
  /\ lock' = 0
  /\ LET pr == AfterFetch([proc[p] EXCEPT !.cnt = 0, !.incs = @ + 1],
                          now, today)
     IN  Set(p, pr) /\ Count(pr)
  /\ UNCHANGED <<cache, writeCount, apiKey, now, today, hist, page>>

\* await isOverLimit()
IsOverLimit(p) ==
  /\ proc[p].pc = "isOverLimit"
  /\ LET pr == AfterLimit(proc[p], OverLimit(CountFor(proc[p].day)), now, today)
     IN  Set(p, pr) /\ Count(pr)
  /\ UNCHANGED <<store, lock, now, today, hist, page>>

\* writeCache: const count = (prev || 0) + 1
WcRead(p) ==
  /\ proc[p].pc = "wcRead"
  /\ Set(p, [proc[p] EXCEPT !.pc = "wcSet", !.wc = writeCount + 1])
  /\ UNCHANGED <<store, lock, now, today, issued, hist, page>>

\* count > PRUNE_INTERVAL: the prune one write late
PruneDueLate(count) == count > PRUNE_INTERVAL

\* count >= PRUNE_INTERVAL
PruneDue(count) == count >= PRUNE_INTERVAL

\* writeCache: storage.set({[key]: data, [PRUNE_COUNTER_KEY]: ...}); prune?
WcSet(p) ==
  /\ proc[p].pc = "wcSet"
  /\ cache' = Put(cache, proc[p].key, proc[p].entry)
  /\ writeCount' = IF PruneDue(proc[p].wc) THEN 0 ELSE proc[p].wc
  /\ IF PruneDue(proc[p].wc)
     THEN Set(p, [proc[p] EXCEPT !.pc = "pruneRead", !.wc = 0, !.puts = @ + 1])
     ELSE Set(p, Finish([proc[p] EXCEPT !.puts = @ + 1], Value(proc[p].entry)))
  /\ UNCHANGED <<apiCallsToday, apiCallsDate, apiKey, lock, now, today, issued,
                 hist, page>>

\* now - entry.cachedAt > CACHE_TTL_MS alone, which is false (NaN > x) for an
\* entry without cachedAt
AgeOnly(entry, t) == entry.cachedAt # 0 /\ Expired(entry, t)

\* pruneCache: !entry?.cachedAt || now - entry.cachedAt > CACHE_TTL_MS
Stale(entry, t) == entry.cachedAt = 0 \/ Expired(entry, t)

\* the sort of pruneCache descending: the newest entries are removed
Newest(all, valid, rem) ==
  /\ rem \subseteq valid
  /\ Cardinality(rem) = Max(Cardinality(valid) - MAX_CACHE_SIZE, 0)
  /\ \A k \in rem : \A j \in valid \ rem : all[k].cachedAt >= all[j].cachedAt

\* pruneCache: the keys of valid.slice(0, valid.length - MAX_CACHE_SIZE) after
\* the sort by cachedAt; the order among equal cachedAt is the store's
Oldest(all, valid, rem) ==
  /\ rem \subseteq valid
  /\ Cardinality(rem) = Max(Cardinality(valid) - MAX_CACHE_SIZE, 0)
  /\ \A k \in rem : \A j \in valid \ rem : all[k].cachedAt <= all[j].cachedAt

\* pruneCache up to the return of storage.get(null)
PruneRead(p) ==
  /\ proc[p].pc = "pruneRead"
  /\ LET stale == {k \in DOMAIN cache : Stale(cache[k], now)}
         valid == (DOMAIN cache) \ stale
     IN  \E rem \in SUBSET valid :
           /\ Oldest(cache, valid, rem)
           /\ IF stale \cup rem = {}
              THEN Set(p, Finish(proc[p], Value(proc[p].entry)))
              ELSE Set(p, [proc[p] EXCEPT !.pc = "pruneRemove",
                                          !.toRemove = stale \cup rem])
  /\ UNCHANGED <<store, lock, now, today, issued, hist, page>>

\* pruneCache: await chrome.storage.local.remove(toRemove)
PruneRemove(p) ==
  /\ proc[p].pc = "pruneRemove"
  /\ cache' = Remove(cache, proc[p].toRemove)
  /\ Set(p, Finish(proc[p], Value(proc[p].entry)))
  /\ UNCHANGED <<apiCallsToday, apiCallsDate, writeCount, apiKey, lock, now,
                 today, issued, hist, page>>

\* Time passes.  Date.now() enters the program only in cachedAt and in its
\* difference with cachedAt, so the clock is started at the first record made.
Tick ==
  /\ now < MaxNow
  /\ \/ DOMAIN cache # {}
     \/ \E p \in DOMAIN proc : proc[p].entry # NoEntry
  /\ now' = now + 1
  /\ UNCHANGED <<store, lock, today, proc, issued, hist, page>>

\* midnight: toDateString() changes
NewDay ==
  /\ today < MaxDay
  /\ today' = today + 1
  /\ issued' = 0
  /\ UNCHANGED <<store, lock, now, proc, hist, page>>

(***************************************************************************)
(* The resolver: NumProcs concurrent FETCH_RATING messages.                *)
(***************************************************************************)
Init ==
  /\ cache = <<>>
  /\ apiCallsToday = 0
  /\ apiCallsDate = <<>>
  /\ writeCount = 0
  /\ apiKey \in {"", "k"}
  /\ lock = 0
  /\ now = 1
  /\ today = 0
  /\ proc = [p \in Procs |-> Idle]
  /\ issued = 0
  /\ hist = <<>>
  /\ page = PageInit

Next ==
  \/ \E p \in Procs : \E q \in Queries : HandleFetchRating(p, q)
  \/ \E p \in Procs : RemoveExpired(p)
  \/ \E p \in Procs : GetApiKey(p)
  \/ \E p \in Procs : CheckLimit(p)
  \/ \E p \in Procs : OmdbResponse(p)
  \/ \E p \in Procs : IncAcquire(p)
  \/ \E p \in Procs : IncRead(p)
  \/ \E p \in Procs : IncWrite(p)
  \/ \E p \in Procs : IsOverLimit(p)
  \/ \E p \in Procs : WcRead(p)
  \/ \E p \in Procs : WcSet(p)
  \/ \E p \in Procs : PruneRead(p)
  \/ \E p \in Procs : PruneRemove(p)
  \/ Tick
  \/ NewDay

Spec == Init /\ [][Next]_vars

(***************************************************************************)
(* The quota tracker alone: NumIncs concurrent incrementApiCalls() calls   *)
(* against a cold counter.                                                 *)
(***************************************************************************)
NumIncs == 3

\* incrementApiCalls() is called
IncStart(p) ==
  /\ proc[p].pc = "idle"
  /\ Set(p, [proc[p] EXCEPT !.pc = "incAcquire", !.stage = "incOnly"])
  /\ UNCHANGED <<store, lock, now, today, issued, hist, page>>

InitInc ==
  /\ cache = <<>>
  /\ apiCallsToday = 0
  /\ apiCallsDate = <<>>
  /\ writeCount = 0
  /\ apiKey = "k"
  /\ lock = 0
  /\ now = 1
  /\ today = 0
  /\ proc = [p \in 1..NumIncs |-> Idle]
  /\ issued = 0
  /\ hist = <<>>
  /\ page = PageInit

NextInc ==
  \/ \E p \in 1..NumIncs : IncStart(p)
  \/ \E p \in 1..NumIncs : IncAcquire(p)
  \/ \E p \in 1..NumIncs : IncRead(p)
  \/ \E p \in 1..NumIncs : IncWrite(p)
  \/ NewDay

SpecInc == InitInc /\ [][NextInc]_vars

(***************************************************************************)
(* The cache store alone: one caller after the other calls writeCache,     *)
(* MaxWrites times in all, on a store that starts empty.                   *)
(***************************************************************************)
MaxWrites == 5

\* the i-th cache key
KeyOf(i) == CACHE_KEY_PREFIX \o <<"k", i>>

UsedKeys == {hist[i][1] : i \in 1..Len(hist)}

\* writeCache(key, { ..., cachedAt: Date.now() }) is called, on a key written
\* before or on the next new key
CachePut(p) ==
  /\ proc[p].pc \in {"idle", "done"}
  /\ Len(hist) < MaxWrites
  /\ \E k \in UsedKeys \cup {KeyOf(Cardinality(UsedKeys) + 1)} :
       /\ Set(p, CallWriteCache([Idle EXCEPT !.key = k],
                                Processed(ById("tt1"), now)))
       /\ hist' = Append(hist, <<k, now>>)
  /\ UNCHANGED <<store, lock, now, today, issued, page>>

InitCache ==
  /\ cache = <<>>
  /\ apiCallsToday = 0
  /\ apiCallsDate = <<>>
  /\ writeCount = 0
  /\ apiKey = "k"
  /\ lock = 0
  /\ now = 1
  /\ today = 0
  /\ proc = [p \in {1} |-> Idle]
  /\ issued = 0
  /\ hist = <<>>
  /\ page = PageInit

NextCache ==
  \/ CachePut(1)
  \/ WcRead(1)
  \/ WcSet(1)
  \/ PruneRead(1)
  \/ PruneRemove(1)
  \/ Tick

SpecCache == InitCache /\ [][NextCache]_vars

(***************************************************************************)
(* Claims about the quota tracker (SpecInc).                               *)
(***************************************************************************)
InFlight == {p \in DOMAIN proc : proc[p].pc \notin {"idle", "done"}}

Completed == {p \in DOMAIN proc : proc[p].pc = "done"}

\* C1: once the incrementApiCalls() calls fired so far against a cold counter
\* have all completed, with no midnight in between, getApiCallCount() is the
\* number of calls fired: no interleaving of the reads and writes loses one.
C1_NoLostUpdate ==
  (InFlight = {} /\ today = 0) => CountFor(today) = Cardinality(Completed)

\* all NumIncs calls were fired, overlapped, and have completed
C1_Witness ==
  /\ InFlight = {}
  /\ today = 0
  /\ Cardinality(Completed) = NumIncs
  /\ CountFor(today) = NumIncs

(***************************************************************************)
(* Claims about the resolver (Spec).                                       *)
(***************************************************************************)
\* p was called with the day's count at the limit, and it is still that day
AtLimit(p) == proc[p].since = <<today>>

\* C2 as claimed: once getApiCallCount() == API_DAILY_LIMIT, any further
\* resolve returns the quota-exceeded error and performs no upstream call.
C2_AlwaysQuotaError ==
  \A p \in DOMAIN proc :
    AtLimit(p) =>
      /\ proc[p].calls = 0
      /\ proc[p].pc = "done" => proc[p].result.error = ERR_LIMIT

\* C2 as amended: a resolve called with the day's count at the limit performs
\* no upstream call; it returns the cached entry on a cache hit, the
\* credential-missing error when no API key is stored, and the quota-exceeded
\* error otherwise.
C2_QuotaHardStop ==
  \A p \in DOMAIN proc :
    AtLimit(p) =>
      /\ proc[p].calls = 0
      /\ proc[p].incs = 0
      /\ proc[p].pc \in {"idle", "removeExpired", "getKey", "checkLimit", "done"}
      /\ proc[p].pc = "done" =>
           IF proc[p].hit THEN proc[p].result.error = ""
           ELSE IF Falsy(apiKey) THEN proc[p].result.error = ERR_NO_KEY
           ELSE proc[p].result.error = ERR_LIMIT

\* a resolve called at the limit missed the cache and got the quota error
C2_Witness ==
  \E p \in DOMAIN proc :
    /\ AtLimit(p)
    /\ proc[p].pc = "done"
    /\ ~proc[p].hit
    /\ proc[p].result.error = ERR_LIMIT
    /\ CountFor(today) = API_DAILY_LIMIT

\* C3: the upstream HTTP calls issued within one calendar day never exceed
\* API_DAILY_LIMIT.
C3_HardCeiling == issued <= API_DAILY_LIMIT

\* the step of p is handleFetchRating's call and cache read
Called(p) == proc[p].pc = "idle" /\ proc'[p].pc # "idle"

\* C4: a resolve of a query whose key holds an entry aged at most TTL (the
\* second of two identical resolves within TTL) returns that entry unchanged,
\* cachedAt included, issues no upstream call and leaves the quota counter and
\* the cache as they are.
C4_Idempotent ==
  [][\A p \in DOMAIN proc :
       LET key == proc'[p].key
       IN  (/\ Called(p)
            /\ key \in DOMAIN cache
            /\ now - cache[key].cachedAt <= CACHE_TTL_MS)
           => /\ proc'[p].pc = "done"
              /\ proc'[p].result.error = ""
              /\ proc'[p].result.value = cache[key]
              /\ proc'[p].calls = 0
              /\ proc'[p].incs = 0
              /\ UNCHANGED <<cache, apiCallsToday, apiCallsDate, issued>>]_vars

\* two resolves of one query: the first went upstream and cached its record,
\* the second, later, returned the same record from the cache
C4_Witness ==
  \E p1, p2 \in DOMAIN proc :
    /\ proc[p1].pc = "done" /\ proc[p2].pc = "done"
    /\ proc[p1].q = proc[p2].q
    /\ ~proc[p1].hit /\ proc[p1].calls > 0 /\ proc[p1].result.error = ""
    /\ proc[p2].hit /\ proc[p2].calls = 0
    /\ proc[p2].result = proc[p1].result
    /\ now > proc[p1].result.value.cachedAt

\* C7: getCached returns absent exactly when the key holds no entry or the
\* entry is older than TTL (an entry aged exactly TTL is returned), and the
\* expired entry it found is removed from the store.
C7_TtlExpiry ==
  [][\A p \in DOMAIN proc :
       LET key == proc'[p].key
       IN  /\ Called(p) =>
                /\ ~proc'[p].hit <=>
                     \/ key \notin DOMAIN cache
                     \/ now - cache[key].cachedAt > CACHE_TTL_MS
                /\ proc'[p].hit => proc'[p].result.value = cache[key]
                /\ proc'[p].pc = "removeExpired" <=>
                     /\ key \in DOMAIN cache
                     /\ now - cache[key].cachedAt > CACHE_TTL_MS
           /\ (proc[p].pc = "removeExpired" /\ proc'[p].pc # "removeExpired")
                => proc[p].key \notin DOMAIN cache']_vars

\* getCached has found an entry one tick past TTL and is about to remove it
C7_Witness ==
  \E p \in DOMAIN proc :
    /\ proc[p].pc = "removeExpired"
    /\ proc[p].key \in DOMAIN cache
    /\ now - cache[proc[p].key].cachedAt = CACHE_TTL_MS + 1

\* the strategy steps that need no earlier step to have found something
Steps(q) ==
  IF ~Falsy(q.year) /\ ~Falsy(q.mediaType) THEN 1
  ELSE IF ~Falsy(q.year) THEN 2
  ELSE 3

C9_CountIsCalls == InFlight = {} => CountFor(today) = issued

\* every strategy step that needs no earlier find was issued and answered
\* "not found"
Exhausted(pr) ==
  ~pr.hit /\ pr.calls = Steps(pr.q) /\ pr.nf = pr.calls

IsMissOf(entry, q) == entry.notFound /\ entry.title = q.title

\* C10: a resolution whose every step found no upstream match writes a
\* MissRecord under the query's cache key and returns it; a repeat that reads
\* a MissRecord from the cache returns it without any upstream call.
C10_MissCached ==
  /\ [](\A p \in DOMAIN proc :
          /\ (Exhausted(proc[p]) /\ proc[p].pc \in {"wcRead", "wcSet"})
               => IsMissOf(proc[p].entry, proc[p].q)
          /\ (Exhausted(proc[p]) /\ proc[p].pc = "done")
               => /\ proc[p].result.error = ""
                  /\ IsMissOf(proc[p].result.value, proc[p].q)
          /\ (proc[p].hit /\ proc[p].result.value.notFound)
               => proc[p].calls = 0 /\ proc[p].incs = 0)
  /\ [][\A p \in DOMAIN proc :
          /\ (Exhausted(proc[p]) /\ proc[p].pc = "wcSet" /\ proc'[p].pc # "wcSet")
               => /\ proc[p].key = CacheKey(proc[p].q)
                  /\ proc[p].key \in DOMAIN cache'
                  /\ cache'[proc[p].key] = proc[p].entry
          /\ (Exhausted(proc'[p]) /\ proc[p].pc # "done" /\ proc'[p].pc = "done")
               => proc[p].pc \in {"wcSet", "pruneRead", "pruneRemove"}]_vars

\* a resolution exhausted its steps and cached the miss; a repeat of the
\* query returned that miss from the cache
C10_Witness ==
  \E p1, p2 \in DOMAIN proc :
    /\ proc[p1].pc = "done" /\ proc[p2].pc = "done"
    /\ proc[p1].q = proc[p2].q
    /\ Exhausted(proc[p1])
    /\ IsMissOf(proc[p1].result.value, proc[p1].q)
    /\ proc[p2].hit /\ proc[p2].calls = 0
    /\ proc[p2].result = proc[p1].result

(***************************************************************************)
(* Claims about the cache store (SpecCache).                               *)
(***************************************************************************)
\* C5 as claimed: after any cache write completes, at most MAX_CACHE_SIZE
\* entries are stored under the cache-key prefix.
C5_AtMostMax == InFlight = {} => Cardinality(DOMAIN cache) <= MAX_CACHE_SIZE

\* C5 as amended: when cache writes do not overlap, after any cache write
\* completes the entries number at most MAX_CACHE_SIZE plus the writes since
\* the last prune, which are fewer than PRUNE_INTERVAL.
C5_AtMostMaxPlusInterval ==
  InFlight = {} =>
    /\ writeCount < PRUNE_INTERVAL
    /\ Cardinality(DOMAIN cache) <= MAX_CACHE_SIZE + writeCount

\* a write has completed and left MAX_CACHE_SIZE + PRUNE_INTERVAL - 1 entries
C5_Witness ==
  /\ InFlight = {}
  /\ Len(hist) > 0
  /\ Cardinality(DOMAIN cache) = MAX_CACHE_SIZE + PRUNE_INTERVAL - 1

\* the writes so far had distinct keys and strictly increasing cachedAt
DistinctIncreasing ==
  /\ Cardinality(UsedKeys) = Len(hist)
  /\ \A i \in 1..(Len(hist) - 1) : hist[i][2] < hist[i + 1][2]

\* the keys of the r most recent writes
Recent(r) == {hist[i][1] : i \in (Len(hist) - r + 1)..Len(hist)}

\* none of the r most recent writes is older than TTL
Unexpired(r) ==
  \A i \in (Len(hist) - r + 1)..Len(hist) : now - hist[i][2] <= CACHE_TTL_MS

\* C6 as claimed: after MAX_CACHE_SIZE + K inserts (K >= 1) with distinct keys
\* and strictly increasing cachedAt into an empty cache, exactly the
\* MAX_CACHE_SIZE most recently inserted entries remain.
C6_ExactlyMaxRemain ==
  (/\ InFlight = {}
   /\ Len(hist) > MAX_CACHE_SIZE
   /\ DistinctIncreasing
   /\ Unexpired(MAX_CACHE_SIZE))
  => DOMAIN cache = Recent(MAX_CACHE_SIZE)

\* C6 as amended: after n = MAX_CACHE_SIZE + K such inserts, none of the
\* survivors older than TTL, the MAX_CACHE_SIZE + (n mod PRUNE_INTERVAL) most
\* recently inserted entries remain: MAX_CACHE_SIZE only when PRUNE_INTERVAL
\* divides n (PRUNE_INTERVAL divides MAX_CACHE_SIZE).
C6_RecentRemain ==
  LET r == MAX_CACHE_SIZE + (Len(hist) % PRUNE_INTERVAL)
  IN  (/\ InFlight = {}
       /\ Len(hist) > MAX_CACHE_SIZE
       /\ DistinctIncreasing
       /\ Unexpired(r))
      => /\ DOMAIN cache = Recent(r)
         /\ \A i \in (Len(hist) - r + 1)..Len(hist) :
              cache[hist[i][1]].cachedAt = hist[i][2]

\* MAX_CACHE_SIZE + PRUNE_INTERVAL inserts were made and the oldest
\* PRUNE_INTERVAL of them were evicted
C6_Witness ==
  /\ InFlight = {}
  /\ Len(hist) = MAX_CACHE_SIZE + PRUNE_INTERVAL
  /\ DistinctIncreasing
  /\ Unexpired(MAX_CACHE_SIZE)
  /\ DOMAIN cache = Recent(MAX_CACHE_SIZE)

(***************************************************************************)
(* Claims about the resolver's error paths (Spec).                         *)
(***************************************************************************)
\* C11: when an upstream call of a resolution (exact, alternate, search or
\* detail) is answered with the invalid-credential response, the resolution
\* ends there: it returns the invalid-credential error, issues no further
\* upstream call and has stored no cache entry.
C11_InvalidKeyAborts ==
  /\ [](\A p \in DOMAIN proc :
          (proc[p].pc = "done" /\ proc[p].result.error = ERR_INVALID_KEY)
            => proc[p].puts = 0)
  /\ [][\A p \in DOMAIN proc :
          (proc[p].pc = "incWrite" /\ proc[p].data = InvalidKeyData
             /\ proc'[p] # proc[p])
            => /\ proc'[p].pc = "done"
               /\ proc'[p].result = ErrorResult(ERR_INVALID_KEY)
               /\ proc'[p].calls = proc[p].calls
               /\ proc'[p].puts = 0
               /\ UNCHANGED <<cache, writeCount, issued>>]_vars

\* the alternate-type call of a resolution was answered "invalid API key"
\* after its first call had been answered, and the resolution returned the error
C11_Witness ==
  \E p \in DOMAIN proc :
    /\ proc[p].pc = "done"
    /\ proc[p].result.error = ERR_INVALID_KEY
    /\ proc[p].calls = 2
    /\ proc[p].incs = 2
    /\ proc[p].key \notin DOMAIN cache

\* C12: on a cache miss, a resolve that finds no API key stored returns the
\* credential-missing error; one that finds a key and reads a count for the
\* day at or above API_DAILY_LIMIT returns the quota-exceeded error, and only
\* such a one. Either is returned as an { error } value, with no upstream call
\* issued and the quota counter unchanged.
C12_ShortCircuit ==
  [][\A p \in DOMAIN proc :
       /\ (proc[p].pc = "getKey" /\ proc'[p] # proc[p]) =>
            IF apiKey = ""
            THEN /\ proc'[p].pc = "done"
                 /\ proc'[p].result = ErrorResult(ERR_NO_KEY)
                 /\ proc'[p].calls = 0 /\ proc'[p].incs = 0
                 /\ UNCHANGED <<apiCallsToday, apiCallsDate, issued, cache>>
            ELSE proc'[p].pc = "checkLimit"
       /\ (proc[p].pc = "checkLimit" /\ proc'[p] # proc[p]) =>
            IF apiCallsDate = <<proc[p].day>> /\ apiCallsToday >= API_DAILY_LIMIT
            THEN /\ proc'[p].pc = "done"
                 /\ proc'[p].result = ErrorResult(ERR_LIMIT)
                 /\ proc'[p].calls = 0 /\ proc'[p].incs = 0
                 /\ UNCHANGED <<apiCallsToday, apiCallsDate, issued, cache>>
            ELSE proc'[p].pc = "fetch" /\ proc'[p].calls = 1]_vars

\* a resolve called below the limit missed the cache, found the limit reached
\* by the time it read the count, and returned the quota error without a call
C12_Witness ==
  \E p \in DOMAIN proc :
    /\ proc[p].pc = "done"
    /\ proc[p].result = ErrorResult(ERR_LIMIT)
    /\ proc[p].since = <<>>
    /\ proc[p].calls = 0
    /\ CountFor(today) >= API_DAILY_LIMIT

\* the messages of CredentialMissing, QuotaExceeded, InvalidCredential,
\* UpstreamTimeout and UpstreamUnavailable
ErrorKinds == {ERR_NO_KEY, ERR_LIMIT, ERR_INVALID_KEY, ERR_TIMEOUT, ERR_NETWORK}

RatingLists ==
  { <<>>,
    <<[Source |-> "Rotten Tomatoes", Value |-> "90%"]>>,
    <<[Source |-> "Internet Movie Database", Value |-> "8.8/10"]>>,
    <<[Source |-> "Internet Movie Database", Value |-> "8.8/10"],
      [Source |-> "Rotten Tomatoes", Value |-> "90%"]>> }

\* found records: imdbRating a value, 'N/A' or not carried
Records ==
  { Movie(<<"a", "b">>, "2005", "tt1", r, rs, "p", "movie") :
      r \in {"8.8", "N/A", "undefined"}, rs \in RatingLists }

\* handleFetchRating: return await processAndCache(cacheKey, result)
ProcessRecord(p) ==
  /\ proc[p].pc \in {"idle", "done"}
  /\ \E q \in Queries : \E data \in Records :
       Set(p, [processAndCache([Idle EXCEPT !.q = q, !.key = CacheKey(q)],
                               data, now)
                 EXCEPT !.data = data])
  /\ UNCHANGED <<store, lock, now, today, issued, hist, page>>

InitRecord ==
  /\ cache = <<>>
  /\ apiCallsToday = 0
  /\ apiCallsDate = <<>>
  /\ writeCount = 0
  /\ apiKey = "k"
  /\ lock = 0
  /\ now = 1
  /\ today = 0
  /\ proc = [p \in {1} |-> Idle]
  /\ issued = 0
  /\ hist = <<>>
  /\ page = PageInit

NextRecord ==
  \/ ProcessRecord(1)
  \/ WcRead(1)
  \/ WcSet(1)
  \/ PruneRead(1)
  \/ PruneRemove(1)

SpecRecord == InitRecord /\ [][NextRecord]_vars

(***************************************************************************)
(* Claims about processAndCache (SpecRecord).                              *)
(***************************************************************************)
\* the upstream record carries an IMDb rating
HasImdb(data) == data.imdbRating \notin {"N/A", "undefined"}

\* the upstream record carries a Rotten Tomatoes rating
HasRT(data) ==
  \E i \in 1..Len(data.Ratings) : data.Ratings[i].Source = "Rotten Tomatoes"

InWriteCache(pr) == pr.pc \in {"wcRead", "wcSet", "pruneRead", "pruneRemove"}

\* C14: every cache entry that is not a MissRecord carries imdbRating or
\* rottenTomatoes; a found record with neither rating is stored and returned
\* as a MissRecord, one with a rating as a RatingRecord that carries exactly
\* the ratings the record has.
C14_RatinglessIsMiss ==
  /\ [](\A k \in DOMAIN cache :
          ~cache[k].notFound =>
            ~Falsy(cache[k].imdbRating) \/ ~Falsy(cache[k].rottenTomatoes))
  /\ [](\A p \in DOMAIN proc :
          InWriteCache(proc[p]) =>
            LET data == proc[p].data
                e    == proc[p].entry
            IN  /\ data \in Records
                /\ (~HasImdb(data) /\ ~HasRT(data)) =>
                      e = MissRecord(data.Title, e.cachedAt)
                /\ (HasImdb(data) \/ HasRT(data)) =>
                      /\ ~e.notFound
                      /\ e.title = data.Title /\ e.imdbID = data.imdbID
                      /\ IF HasImdb(data) THEN e.imdbRating = data.imdbRating
                                          ELSE Falsy(e.imdbRating)
                      /\ IF HasRT(data) THEN e.rottenTomatoes = "90%"
                                        ELSE Falsy(e.rottenTomatoes)
                /\ proc[p].pc = "pruneRead" => cache[proc[p].key] = e)
  /\ [][\A p \in DOMAIN proc :
          /\ (proc[p].pc = "wcSet" /\ proc'[p].pc # "wcSet")
               => cache'[proc[p].key] = proc[p].entry
          /\ (InWriteCache(proc[p]) /\ proc'[p].pc = "done")
               => proc'[p].result = Value(proc[p].entry)]_vars

\* the cache holds the MissRecord of a ratingless record under one key and,
\* under another, the RatingRecord of a record rated by Rotten Tomatoes only
C14_Witness ==
  \E k1, k2 \in DOMAIN cache :
    /\ cache[k1].notFound /\ cache[k1].title = <<"a", "b">>
    /\ ~cache[k2].notFound
    /\ Falsy(cache[k2].imdbRating)
    /\ cache[k2].rottenTomatoes = "90%"

(***************************************************************************)
(* The cache key alone: resolves of titles that differ in letter case and  *)
(* in spaces, with no API key stored, so that each ends after its key is   *)
(* computed and looked up.                                                 *)
(***************************************************************************)
MaxTitleLen == 3

\* the titles of 1..MaxTitleLen characters out of "A", "a" and " "
KeyTitles ==
  UNION { [1..n -> {"A", "a", " "}] : n \in 1..MaxTitleLen }

KeyQueries ==
  { [title |-> t, year |-> "2005", mediaType |-> "movie"] : t \in KeyTitles }

InitKey ==
  /\ cache = <<>>
  /\ apiCallsToday = 0
  /\ apiCallsDate = <<>>
  /\ writeCount = 0
  /\ apiKey = ""
  /\ lock = 0
  /\ now = 1
  /\ today = 0
  /\ proc = [p \in Procs |-> Idle]
  /\ issued = 0
  /\ hist = <<>>
  /\ page = PageInit

NextKey ==
  \/ \E p \in Procs : \E q \in KeyQueries : HandleFetchRating(p, q)
  \/ \E p \in Procs : GetApiKey(p)

SpecKey == InitKey /\ [][NextKey]_vars

(***************************************************************************)
(* Claims about the cache key (SpecKey).                                   *)
(***************************************************************************)
\* s without its leading and trailing spaces
TrimSpaces(s) ==
  LET inner == {i \in 1..Len(s) : ~IsSpace(s[i])}
  IN  IF inner = {} THEN <<>>
      ELSE SubSeq(s, CHOOSE i \in inner : \A j \in inner : i <= j,
                     CHOOSE i \in inner : \A j \in inner : i >= j)

\* the queries differ at most by letter case and leading/trailing spaces of
\* the title
SameQuery(q1, q2) ==
  /\ toLowerCase(TrimSpaces(q1.title)) = toLowerCase(TrimSpaces(q2.title))
  /\ q1.year = q2.year
  /\ q1.mediaType = q2.mediaType

OmdbHeaders(p) ==
  /\ proc[p].pc = "fetch"
  /\ \/ Set(p, [proc[p] EXCEPT !.pc = "json", !.timer = FALSE])
     \/ Set(p, Thrown(proc[p], ERR_NETWORK))
  /\ UNCHANGED <<store, lock, now, today, issued, hist, page>>

\* await res.json(): the body is read and parsed, or the read or parse fails
OmdbBody(p) ==
  /\ proc[p].pc = "json"
  /\ \/ \E data \in Answers(proc[p]) :
          Set(p, [proc[p] EXCEPT !.pc = "incAcquire", !.data = data,
                                 !.nf = @ + (IF data = NotFoundData THEN 1 ELSE 0)])
     \/ Set(p, Thrown(proc[p], ERR_NETWORK))
  /\ UNCHANGED <<store, lock, now, today, issued, hist, page>>

\* setTimeout(() => controller.abort(), FETCH_TIMEOUT_MS) fires: the pending
\* fetch rejects with AbortError
AbortTimer(p) ==
  /\ proc[p].pc \in {"fetch", "json"}
  /\ proc[p].timer
  /\ Set(p, Thrown(proc[p], ERR_TIMEOUT))
  /\ UNCHANGED <<store, lock, now, today, issued, hist, page>>

\* the steps of the service worker that wait for storage only
StorageStep(p) ==
  \/ GetApiKey(p)
  \/ CheckLimit(p)
  \/ IncAcquire(p)
  \/ IncRead(p)
  \/ IncWrite(p)
  \/ IsOverLimit(p)
  \/ WcRead(p)
  \/ WcSet(p)

InitLive ==
  /\ cache = <<>>
  /\ apiCallsToday = 0
  /\ apiCallsDate = <<>>
  /\ writeCount = 0
  /\ apiKey = "k"
  /\ lock = 0
  /\ now = 1
  /\ today = 0
  /\ proc = [p \in {1} |-> Idle]
  /\ issued = 0
  /\ hist = <<>>
  /\ page = PageInit

NextLive ==
  \/ \E q \in Queries : HandleFetchRating(1, q)
  \/ StorageStep(1)
  \/ OmdbHeaders(1)
  \/ OmdbBody(1)
  \/ AbortTimer(1)

SpecLive ==
  /\ InitLive
  /\ [][NextLive]_vars
  /\ WF_vars(StorageStep(1))
  /\ WF_vars(AbortTimer(1))

(***************************************************************************)
(* Claims about termination (SpecLive).                                    *)
(***************************************************************************)
\* C16: every upstream call that omdbFetch has started finishes (returns the
\* parsed data or throws), the time the body is read included, and every
\* resolve delivers a result.
C16_NoCallBlocks ==
  \A p \in {1} :
    /\ (proc[p].pc \in {"fetch", "json"}) ~> (proc[p].pc \notin {"fetch", "json"})
    /\ (proc[p].pc # "idle") ~> (proc[p].pc = "done")

(***************************************************************************)
(* The content script (src/unnamed/part_001): hovers over the title cards  *)
(* of one tab, the FETCH_RATING requests they send, the responses, SPA     *)
(* navigation (init) and the popup's enable switch.  A card's title is the *)
(* card's number.                                                          *)
(***************************************************************************)
NumCards == 2

MaxRequests == 3

Cards == 1..NumCards

worker == <<store, lock, now, today, proc, issued, hist>>

\* hideOverlay(): opacity '0'
hideOverlay(pg) == [pg EXCEPT !.opacity = 0]

\* showOverlay(element, data): the spinner or the badges are shown; an error
\* or a miss hides the overlay
showOverlay(pg, data) ==
  IF data \in {"loading", "rating"} THEN [pg EXCEPT !.opacity = 1]
  ELSE hideOverlay(pg)

\* cleanup(): the timers are cleared, requestSeq = 0
cleanup(pg) ==
  [pg EXCEPT !.hoverTimer = 0, !.hideTimer = FALSE, !.requestSeq = 0]

\* init() up to its await: cleanup(), the storage read is issued
init(pg) == [cleanup(pg) EXCEPT !.initRead = TRUE]

\* mouseenter on a card
OnMouseEnter(el) ==
  /\ page.enabled
  /\ page' = [page EXCEPT !.hoveredEl = el, !.hideTimer = FALSE,
                          !.hoverTimer = el]
  /\ UNCHANGED worker

\* the debounce timer fires: if (hoveredEl === el) fetchRating(el), up to
\* chrome.runtime.sendMessage
FetchRating ==
  /\ page.hoverTimer # 0
  /\ page.sent < MaxRequests
  /\ LET el == page.hoverTimer
         pg == [page EXCEPT !.hoverTimer = 0]
         seq == page.requestSeq + 1
     IN  IF page.hoveredEl # el \/ ~page.enabled THEN page' = pg
         ELSE IF page.hoveredTitle = el /\ page.opacity = 1 THEN page' = pg
         ELSE page' = [pg EXCEPT
                         !.hoveredTitle = el,
                         !.requestSeq = seq,
                         !.sent = @ + 1,
                         !.requests = @ \cup {[id |-> page.sent + 1,
                                                seq |-> seq, el |-> el,
                                                spinner |-> TRUE]}]
  /\ UNCHANGED worker

\* the spinner timer of a request fires
SpinnerTimer ==
  /\ \E r \in page.requests :
       /\ r.spinner
       /\ LET pg == [page EXCEPT !.requests =
                       (@ \ {r}) \cup {[r EXCEPT !.spinner = FALSE]}]
          IN  page' = IF page.requestSeq = r.seq /\ page.hoveredEl = r.el
                      THEN showOverlay(pg, "loading") ELSE pg
  /\ UNCHANGED worker

\* the response of a request arrives (or sendMessage rejects):
\* if (requestSeq === seq && hoveredEl) showOverlay(hoveredEl, rating)
Response ==
  /\ \E r \in page.requests : \E data \in {"rating", "miss", "error"} :
       LET pg == [page EXCEPT !.requests = @ \ {r}]
       IN  page' = IF page.requestSeq = r.seq /\ page.hoveredEl # 0
                   THEN [showOverlay(pg, data) EXCEPT !.rendered = r.id]
                   ELSE pg
  /\ UNCHANGED worker

\* mouseleave on a card: the listener stays on the card once attached and
\* does not look at `enabled`
OnMouseLeave ==
  /\ page' = [page EXCEPT !.hoverTimer = 0, !.hideTimer = TRUE]
  /\ UNCHANGED worker

\* the hide timer fires: the pointer is over a card, or over none
HideTimer ==
  /\ page.hideTimer
  /\ \/ \E card \in Cards :
          page' = [page EXCEPT !.hideTimer = FALSE, !.hoveredEl = card]
     \/ page' = hideOverlay([page EXCEPT !.hideTimer = FALSE,
                                         !.hoveredEl = 0, !.hoveredTitle = 0])
  /\ UNCHANGED worker

\* the URL poll sees a new location: setTimeout(init, 500) fires
Navigate ==
  /\ page.enabled
  /\ page' = init(page)
  /\ UNCHANGED worker

\* init() after its storage read: enabled = s.enabled !== false
InitRead ==
  /\ page.initRead
  /\ page' = [page EXCEPT !.initRead = FALSE, !.enabled = page.storedEnabled]
  /\ UNCHANGED worker

\* the popup's switch stores `enabled`; onStorageChanged runs in the tab
OnStorageChanged ==
  /\ LET on == ~page.storedEnabled
         pg == [page EXCEPT !.storedEnabled = on, !.enabled = on]
     IN  page' = IF on THEN init(pg)
                 ELSE hideOverlay([pg EXCEPT !.hoverTimer = 0,
                                             !.hideTimer = FALSE,
                                             !.hoveredEl = 0,
                                             !.hoveredTitle = 0])
  /\ UNCHANGED worker

InitPage ==
  /\ cache = <<>>
  /\ apiCallsToday = 0
  /\ apiCallsDate = <<>>
  /\ writeCount = 0
  /\ apiKey = "k"
  /\ lock = 0
  /\ now = 1
  /\ today = 0
  /\ proc = [p \in Procs |-> Idle]
  /\ issued = 0
  /\ hist = <<>>
  /\ page = PageInit

NextPage ==
  \/ \E el \in Cards : OnMouseEnter(el)
  \/ FetchRating
  \/ SpinnerTimer
  \/ Response
  \/ OnMouseLeave
  \/ HideTimer
  \/ Navigate
  \/ InitRead
  \/ OnStorageChanged

SpecPage == InitPage /\ [][NextPage]_vars

(***************************************************************************)
(* Claims about the content script (SpecPage).                             *)
(***************************************************************************)
\* C17: the response of a FETCH_RATING request is rendered (handed to
\* showOverlay) only if that request is the most recently issued one.
C17_LatestRequestWins ==
  [][page'.rendered # page.rendered => page'.rendered = page.sent]_vars

(***************************************************************************)
(* pickBest alone: it is applied to every list of up to MaxCandidates      *)
(* candidates, with and without a query year.                              *)
(***************************************************************************)
MaxCandidates == 3

\* tt1 and tt5 score alike; the others differ in title, year, rating, poster
\* and type
PickCandidates ==
  { Movie(<<"a", "b">>, "2005", "tt1", "8.8", <<>>, "p", "movie"),
    Movie(<<"a", "b">>, "2005", "tt5", "8.8", <<>>, "p", "movie"),
    Movie(<<"a", "b">>, "2001", "tt2", "N/A", <<>>, "N/A", "series"),
    Movie(<<"a", "b">>, "2003", "tt6", "N/A", <<>>, "p", "series"),
    Movie(<<"a", "b", " ", "c", "d">>, "2004", "tt4", "7.0", <<>>, "N/A", "movie"),
    Movie(<<"c", "d">>, "2005", "tt3", "7.0", <<>>, "p", "series") }

PickLists == UNION { [1..n -> PickCandidates] : n \in 0..MaxCandidates }

\* pickBest(queryTitle, queryYear, candidates) is called and returns
PickBest(p) ==
  /\ proc[p].pc = "idle"
  /\ Set(p, [proc[p] EXCEPT !.pc = "picked",
                            !.best = pickBest(proc[p].q.title, proc[p].q.year,
                                              proc[p].data.Search)])
  /\ UNCHANGED <<store, lock, now, today, issued, hist, page>>

InitPick ==
  /\ cache = <<>>
  /\ apiCallsToday = 0
  /\ apiCallsDate = <<>>
  /\ writeCount = 0
  /\ apiKey = "k"
  /\ lock = 0
  /\ now = 1
  /\ today = 0
  /\ \E year \in {"", "2005"} : \E list \in PickLists :
       proc = [p \in {1} |->
                 [Idle EXCEPT !.q = [title |-> <<"A", "b">>, year |-> year,
                                     mediaType |-> ""],
                              !.data = SearchData(list)]]
  /\ issued = 0
  /\ hist = <<>>
  /\ page = PageInit

NextPick == PickBest(1)

SpecPick == InitPick /\ [][NextPick]_vars

(***************************************************************************)
(* Claims about pickBest (SpecPick).                                       *)
(***************************************************************************)
\* the score as claimed, times the denominator of the title similarity:
\* 50 * similarity + year bonus + 10 if rated + 5 if poster + 3 if movie
ClaimedScore(q, c) ==
  LET sim  == titleSimilarity(q.title, c.Title)
      diff == Abs(ParseInt(c.Year) - ParseInt(q.year))
      year == IF q.year = "" \/ c.Year \in {"", "undefined"} THEN 0
              ELSE IF diff = 0 THEN 30
              ELSE IF diff = 1 THEN 20
              ELSE IF diff \in {2, 3} THEN 10
              ELSE 0
      rated  == IF c.imdbRating \in {"", "undefined", "N/A"} THEN 0 ELSE 10
      poster == IF c.Poster \in {"", "undefined", "N/A"} THEN 0 ELSE 5
      movie  == IF c.Type = "movie" THEN 3 ELSE 0
  IN  <<50 * sim[1] + (year + rated + poster + movie) * sim[2], sim[2]>>

\* score a is below score b
Below(a, b) == a[1] * b[2] < b[1] * a[2]

\* C18: pickBest returns the candidate of maximal score, the earliest in
\* input order among those of maximal score (null for no candidates); of two
\* same-title candidates it returns the one with the exact year, a rating and
\* a poster over the one more than 3 years off with neither, in either order.
C18_PickBestMax ==
  \A p \in DOMAIN proc :
    proc[p].pc = "picked" =>
      LET q     == proc[p].q
          cands == proc[p].data.Search
          best  == proc[p].best
      IN  /\ Len(cands) = 0 => best = Null
          /\ Len(cands) > 0 =>
                \E i \in 1..Len(cands) :
                  /\ best = cands[i]
                  /\ \A j \in 1..Len(cands) :
                        ~Below(ClaimedScore(q, cands[i]), ClaimedScore(q, cands[j]))
                  /\ \A j \in 1..(i - 1) :
                        Below(ClaimedScore(q, cands[j]), ClaimedScore(q, cands[i]))
          /\ (q.year = "2005" /\ Len(cands) = 2
                /\ {cands[1].imdbID, cands[2].imdbID} = {"tt1", "tt2"})
                => best.imdbID = "tt1"

\* of three candidates the two of maximal score came last, and the first of
\* the two was returned
C18_Witness ==
  \E p \in DOMAIN proc :
    /\ proc[p].pc = "picked"
    /\ proc[p].q.year = "2005"
    /\ Len(proc[p].data.Search) = 3
    /\ proc[p].data.Search[1].imdbID = "tt2"
    /\ proc[p].data.Search[2].imdbID = "tt1"
    /\ proc[p].data.Search[3].imdbID = "tt5"
    /\ proc[p].best.imdbID = "tt1"

(***************************************************************************)
(* Further claims about the resolver (Spec).                               *)
(***************************************************************************)
\* the upstream calls a resolve of q may issue
Budget(q) ==
  IF ~Falsy(q.year) /\ ~Falsy(q.mediaType) THEN 1
  ELSE IF ~Falsy(q.year) THEN 2
  ELSE 4

\* the resolve has passed the cache, the API key and the limit check
Querying(pr) ==
  /\ pr.pc \notin {"idle", "removeExpired", "getKey", "checkLimit"}
  /\ ~pr.hit
  /\ pr.result.error \notin {ERR_NO_KEY, ERR_LIMIT}

\* C19: a resolve issues at most 4 upstream calls: exactly 1 once it queries
\* with year and mediaType known, at most 2 with only the year known, at most
\* 4 otherwise.
C19_CallBudget ==
  \A p \in DOMAIN proc :
    /\ proc[p].calls <= 4
    /\ proc[p].calls <= Budget(proc[p].q)
    /\ (Querying(proc[p]) /\ Budget(proc[p].q) = 1) => proc[p].calls = 1

\* a resolve with neither year nor mediaType has issued its fourth call, the
\* detail query
C19_Witness ==
  \E p \in DOMAIN proc :
    /\ proc[p].pc = "done"
    /\ Budget(proc[p].q) = 4
    /\ proc[p].calls = 4
    /\ proc[p].result.error = ""

\* C20: a resolve whose key holds an unexpired entry returns that entry at
\* once, whatever the stored API key and the day's count: the API key is not
\* read, no upstream call is issued and the quota counter stays as it is.
C20_HitFirst ==
  /\ [](\A p \in DOMAIN proc :
          proc[p].hit =>
            /\ proc[p].pc = "done"
            /\ proc[p].result.error = ""
            /\ proc[p].calls = 0 /\ proc[p].incs = 0 /\ proc[p].puts = 0)
  /\ [][\A p \in DOMAIN proc :
          (/\ proc[p].pc = "idle" /\ proc'[p].pc # "idle"
           /\ proc'[p].key \in DOMAIN cache
           /\ now - cache[proc'[p].key].cachedAt <= CACHE_TTL_MS)
          => /\ proc'[p].hit
             /\ proc'[p].pc \notin {"getKey", "checkLimit", "fetch"}
             /\ proc'[p].result = Value(cache[proc'[p].key])
             /\ UNCHANGED <<apiCallsToday, apiCallsDate, issued, apiKey>>]_vars

\* a resolve called with the day's count at the limit returned the rating
\* record its key held
C20_Witness ==
  \E p \in DOMAIN proc :
    /\ proc[p].hit
    /\ proc[p].since = <<today>>
    /\ CountFor(today) >= API_DAILY_LIMIT
    /\ ~proc[p].result.value.notFound
    /\ proc[p].result.value.imdbID = "tt1"

(***************************************************************************)
(* The ephemeral service worker: the browser stops it when it is idle and  *)
(* starts it again for the next message.  NumResolves resolves, one after  *)
(* the other, with up to MaxRestarts stops in between.                     *)
(***************************************************************************)
NumResolves == 2

MaxRestarts == 1

\* the write counter a module variable (let cacheWriteCount = 0), set again
\* by the start of the worker
ModuleVariable(count) == 0

\* chrome.storage.local[PRUNE_COUNTER_KEY] after the worker was stopped
Persisted(count) == count

\* a FETCH_RATING message arrives while no other is being handled
Resolve(p, q) ==
  /\ \A o \in DOMAIN proc : proc[o].pc \in {"idle", "done"}
  /\ HandleFetchRating(p, q)

\* The worker is stopped between two invocations and started again: the
\* module is evaluated anew (let _counterLock = null), chrome.storage.local
\* stays.  hist records the stop with the write counter it found.
Restart ==
  /\ \A o \in DOMAIN proc : proc[o].pc \in {"idle", "done"}
  /\ Len(hist) < MaxRestarts
  /\ lock' = 0
  /\ writeCount' = Persisted(writeCount)
  /\ hist' = Append(hist, <<"restart", writeCount>>)
  /\ UNCHANGED <<cache, apiCallsToday, apiCallsDate, apiKey, now, today, proc,
                 issued, page>>

InitRestart ==
  /\ cache = <<>>
  /\ apiCallsToday = 0
  /\ apiCallsDate = <<>>
  /\ writeCount = 0
  /\ apiKey = "k"
  /\ lock = 0
  /\ now = 1
  /\ today = 0
  /\ proc = [p \in 1..NumResolves |-> Idle]
  /\ issued = 0
  /\ hist = <<>>
  /\ page = PageInit

NextRestart ==
  \/ \E p \in 1..NumResolves : \E q \in Queries : Resolve(p, q)
  \/ \E p \in 1..NumResolves : RemoveExpired(p)
  \/ \E p \in 1..NumResolves : GetApiKey(p)
  \/ \E p \in 1..NumResolves : CheckLimit(p)
  \/ \E p \in 1..NumResolves : OmdbResponse(p)
  \/ \E p \in 1..NumResolves : IncAcquire(p)
  \/ \E p \in 1..NumResolves : IncRead(p)
  \/ \E p \in 1..NumResolves : IncWrite(p)
  \/ \E p \in 1..NumResolves : IsOverLimit(p)
  \/ \E p \in 1..NumResolves : WcRead(p)
  \/ \E p \in 1..NumResolves : WcSet(p)
  \/ \E p \in 1..NumResolves : PruneRead(p)
  \/ \E p \in 1..NumResolves : PruneRemove(p)
  \/ Tick
  \/ NewDay
  \/ Restart

SpecRestart == InitRestart /\ [][NextRestart]_vars

PathQueries ==
  { [title |-> <<"A", "b">>, year |-> "", mediaType |-> ""],
    [title |-> <<"C", "d">>, year |-> "", mediaType |-> ""],
    [title |-> <<"A", "b">>, year |-> "", mediaType |-> "series"],
    [title |-> <<"A", "b">>, year |-> "2005", mediaType |-> ""],
    [title |-> <<"C", "d">>, year |-> "2005", mediaType |-> ""] }

InitPaths ==
  /\ cache = <<>>
  /\ \/ apiCallsToday = 0 /\ apiCallsDate = <<>>
     \/ apiCallsToday = 1 /\ apiCallsDate = <<0>>
  /\ writeCount = 0
  /\ apiKey = "k"
  /\ lock = 0
  /\ now = 1
  /\ today = 0
  /\ proc = [p \in {1} |-> Idle]
  /\ issued = 0
  /\ hist = <<>>
  /\ page = PageInit

NextPaths ==
  \/ \E q \in PathQueries : HandleFetchRating(1, q)
  \/ GetApiKey(1)
  \/ CheckLimit(1)
  \/ OmdbResponse(1)
  \/ IncAcquire(1)
  \/ IncRead(1)
  \/ IncWrite(1)
  \/ IsOverLimit(1)
  \/ WcRead(1)
  \/ WcSet(1)
  \/ NewDay

SpecPaths == InitPaths /\ [][NextPaths]_vars

\* rec is a record whose Title matches the title of the query
Acceptable(title, rec) == rec # Null /\ isTitleMatch(title, rec.Title)

\* the step of p is the return of omdbFetch for the call of `stage`
Returned(p, stage) ==
  /\ proc'[p] # proc[p]
  /\ proc[p].pc = "incWrite"
  /\ proc[p].stage = stage
  /\ proc[p].data # InvalidKeyData

\* the record a returned body stands for: data.Response === 'True' ? data : null
RecordOf(data) == IF data.Response = "True" THEN data ELSE Null

\* the step of p is the return of isOverLimit() called at `stage`
Checked(p, stage) ==
  /\ proc'[p] # proc[p]
  /\ proc[p].pc = "isOverLimit"
  /\ proc[p].stage = stage

\* the quota check of p's step passes
Permits(p) ==
  ~(apiCallsDate = <<proc[p].day>> /\ apiCallsToday >= API_DAILY_LIMIT)

\* the step of p ends queryOMDb with rec: handleFetchRating goes on to cache it
Chose(p, rec) ==
  /\ proc'[p].pc = "wcRead"
  /\ proc'[p].entry = Processed(rec, now)
  /\ proc'[p].calls = proc[p].calls

\* the step of p makes isOverLimit() the next operation, before `stage`
Asks(p, stage) ==
  /\ proc'[p].pc = "isOverLimit"
  /\ proc'[p].stage = stage
  /\ proc'[p].calls = proc[p].calls

\* the step of p issues the upstream call of `stage`
Issues(p, stage) ==
  /\ proc'[p].pc = "fetch"
  /\ proc'[p].stage = stage
  /\ proc'[p].calls = proc[p].calls + 1

\* C22: in smartSearch the quota check for the alternate-type query follows
\* the preferred-type query whatever that returned; the alternate query is
\* issued when the check passes and skipped only when the quota is reached;
\* the result is pickBest of both records when both are acceptable title
\* matches, the alternate when only it is, the preferred when only it is (the
\* alternate skipped or not), and otherwise the flow goes on to the search.
C22_SmartSelection ==
  [][\A p \in DOMAIN proc :
       LET title == proc[p].q.title
           exact == proc[p].exact
           alt   == RecordOf(proc[p].data)
       IN  /\ Returned(p, "pref") =>
                /\ Asks(p, "beforeAlt")
                /\ proc'[p].exact = RecordOf(proc[p].data)
           /\ Checked(p, "beforeAlt") =>
                IF Permits(p) THEN Issues(p, "alt")
                ELSE IF Acceptable(title, exact) THEN Chose(p, exact)
                ELSE Asks(p, "beforeSearch")
           /\ Returned(p, "alt") =>
                IF Acceptable(title, alt) /\ Acceptable(title, exact)
                THEN Chose(p, pickBest(title, proc[p].q.year, <<exact, alt>>))
                ELSE IF Acceptable(title, alt) THEN Chose(p, alt)
                ELSE IF Acceptable(title, exact) THEN Chose(p, exact)
                ELSE Asks(p, "beforeSearch")]_vars

\* the series record was preferred and acceptable, the movie record came as
\* the alternate, acceptable too, and pickBest chose the movie
C22_Witness ==
  \E p \in DOMAIN proc :
    /\ proc[p].pc = "wcRead"
    /\ proc[p].q.mediaType = "series"
    /\ proc[p].calls = 2
    /\ proc[p].entry.imdbID = "tt1"

\* the step of p ends queryOMDb with null: handleFetchRating caches the miss
Missed(p) ==
  /\ proc'[p].pc = "wcRead"
  /\ proc'[p].entry = MissRecord(proc[p].q.title, now)
  /\ proc'[p].calls = proc[p].calls

\* the step of p brings it before the quota check of `stage`
Reaches(p, stage) == proc'[p].stage = stage /\ proc[p].stage # stage

\* C23: in smartSearch the quota check of step 3 is reached only when neither
\* exact query gave an acceptable match; the keyword search is issued exactly
\* when that check passes, and a check that fails ends the resolve as a miss.
\* When the search returns candidates, the detail query of the pickBest
\* candidate's imdbID follows its own quota check, once; the outcome is the
\* detail record, or a miss when anything on the way gave nothing.  The
\* unacceptable exact record is never the outcome.
C23_BroadSearch ==
  [][\A p \in DOMAIN proc :
       LET title == proc[p].q.title
           exact == proc[p].exact
           data  == proc[p].data
       IN  /\ Reaches(p, "beforeSearch") =>
                /\ ~Acceptable(title, exact)
                /\ \/ Returned(p, "alt") /\ ~Acceptable(title, RecordOf(data))
                   \/ Checked(p, "beforeAlt") /\ ~Permits(p)
           /\ Reaches(p, "search") => Checked(p, "beforeSearch") /\ Permits(p)
           /\ Checked(p, "beforeSearch") =>
                IF Permits(p) THEN Issues(p, "search") ELSE Missed(p)
           /\ Returned(p, "search") =>
                IF data.Response = "True" /\ Len(data.Search) > 0
                THEN /\ Asks(p, "beforeDetail")
                     /\ proc'[p].best = pickBest(title, proc[p].q.year,
                                                 data.Search)
                ELSE Missed(p)
           /\ Checked(p, "beforeDetail") =>
                IF Permits(p) THEN Issues(p, "detail") ELSE Missed(p)
           /\ (proc[p].pc = "fetch" /\ proc[p].stage = "detail"
               /\ proc'[p].data.Response = "True")
                => proc'[p].data.imdbID = proc[p].best.imdbID
           /\ Returned(p, "detail") =>
                IF data.Response = "True" THEN Chose(p, data) ELSE Missed(p)
           /\ proc[p].stage \in {"beforeSearch", "search", "beforeDetail",
                                 "detail"}
                => ~Acceptable(title, exact)]_vars

\* both exact queries returned records of another title, the search returned
\* candidates, and the detail query of the best one, the fourth call, has
\* returned its record
C23_Witness ==
  \E p \in DOMAIN proc :
    /\ proc[p].pc = "incWrite"
    /\ proc[p].stage = "detail"
    /\ proc[p].calls = 4
    /\ proc[p].exact # Null
    /\ proc[p].data.imdbID = "tt3"

\* q carries a year and no mediaType
YearOnly(q) == ~Falsy(q.year) /\ Falsy(q.mediaType)

\* C24: for a query with a year and no mediaType the first upstream call is
\* the exact query of type movie; a movie record, whatever its title, is the
\* result; when none was found the quota check follows, the series query is
\* issued only when it passes (otherwise the resolve ends as a miss), and what
\* the series query found, whatever its title, is the result.  No keyword
\* search and no detail query is made.
C24_YearOnlyPath ==
  [][\A p \in DOMAIN proc :
       LET data == proc[p].data
       IN  YearOnly(proc'[p].q) =>
             /\ (proc'[p] # proc[p] /\ proc[p].pc = "checkLimit"
                 /\ proc'[p].pc # "done")
                  => /\ Issues(p, "movie")
                     /\ TypeParam(proc'[p]) = "movie"
             /\ Returned(p, "movie") =>
                  IF data.Response = "True" THEN Chose(p, data)
                  ELSE Asks(p, "beforeSeries")
             /\ Reaches(p, "series") =>
                  /\ Checked(p, "beforeSeries")
                  /\ Permits(p)
                  /\ TypeParam(proc'[p]) = "series"
             /\ Checked(p, "beforeSeries") =>
                  IF Permits(p) THEN Issues(p, "series") ELSE Missed(p)
             /\ Returned(p, "series") =>
                  IF data.Response = "True" THEN Chose(p, data) ELSE Missed(p)
             /\ proc'[p].stage \notin {"pref", "beforeAlt", "alt",
                                       "beforeSearch", "search",
                                       "beforeDetail", "detail"}
             /\ proc'[p].calls <= 2]_vars

\* the movie query of a resolve with a year and no mediaType returned a
\* record of another title, and that record is being cached as the result
C24_Witness ==
  \E p \in DOMAIN proc :
    /\ YearOnly(proc[p].q)
    /\ proc[p].pc = "wcRead"
    /\ proc[p].calls = 1
    /\ proc[p].entry.imdbID = "tt1"
    /\ ~isTitleMatch(proc[p].q.title, proc[p].entry.title)

\* the step of p is the return of a getApiCallCount() read
ReadsCount(p) ==
  /\ proc'[p] # proc[p]
  /\ proc[p].pc \in {"checkLimit", "isOverLimit"}

\* the step of p is the storage.set of incrementApiCalls
WritesCount(p) ==
  /\ proc'[p] # proc[p]
  /\ proc[p].pc = "incWrite"

\* C25: getApiCallCount() writes nothing, and when the stored date is not
\* the caller's today it returns 0: the caller goes on to its upstream call
\* whatever count is stored.  incrementApiCalls() stores count 1 with its
\* today when the stored date differs, and the stored count plus one
\* otherwise.  The stored count and date change in no other step, and when
\* one is written the other is written in the same storage.set.
C25_QuotaRollover ==
  [][/\ \A p \in DOMAIN proc :
          /\ ReadsCount(p) =>
               /\ UNCHANGED <<apiCallsToday, apiCallsDate>>
               /\ apiCallsDate # <<proc[p].day>> => proc'[p].pc = "fetch"
          /\ WritesCount(p) =>
               /\ apiCallsDate' = <<proc[p].day>>
               /\ apiCallsToday' = IF apiCallsDate = <<proc[p].day>>
                                   THEN apiCallsToday + 1 ELSE 1
     /\ (apiCallsToday' # apiCallsToday \/ apiCallsDate' # apiCallsDate)
          => \E p \in DOMAIN proc :
               /\ WritesCount(p)
               /\ apiCallsToday' = proc[p].cnt
               /\ apiCallsDate' = <<proc[p].day>>]_vars

\* a resolve's first call brought yesterday's count to the limit; after
\* midnight its quota check passed and its second call stored count 1 with
\* the new date
C25_Witness ==
  \E p \in DOMAIN proc :
    /\ proc[p].incs = 2
    /\ today = 1
    /\ apiCallsDate = <<1>>
    /\ apiCallsToday = 1

(***************************************************************************)
(* pruneCache alone: one call on a store of up to NumEntries entries under *)
(* the cache-key prefix, each with a cachedAt up to the present or without *)
(* one (cachedAt 0), and no other writer.                                  *)
(***************************************************************************)
NumEntries == 4

PruneKeys == {KeyOf(i) : i \in 1..NumEntries}

\* pruneCache() is called; hist records how many entries the store holds
PruneCall(p) ==
  /\ proc[p].pc = "idle"
  /\ Set(p, [proc[p] EXCEPT !.pc = "pruneRead"])
  /\ hist' = Append(hist, <<"prune", Cardinality(DOMAIN cache)>>)
  /\ UNCHANGED <<store, lock, now, today, issued, page>>

InitPrune ==
  /\ now = MaxNow - 1
  /\ \E keys \in SUBSET PruneKeys :
       cache \in [keys -> {Processed(ById("tt1"), t) : t \in 0..now}]
  /\ apiCallsToday = 0
  /\ apiCallsDate = <<>>
  /\ writeCount = 0
  /\ apiKey = "k"
  /\ lock = 0
  /\ today = 0
  /\ proc = [p \in {1} |-> Idle]
  /\ issued = 0
  /\ hist = <<>>
  /\ page = PageInit

NextPrune ==
  \/ PruneCall(1)
  \/ PruneRead(1)
  \/ PruneRemove(1)
  \/ Tick

SpecPrune == InitPrune /\ [][NextPrune]_vars

\* the step of p is pruneCache's storage read and its scan of the entries
Scans(p) == proc[p].pc = "pruneRead" /\ proc'[p] # proc[p]

\* the step of p is pruneCache's storage.remove(toRemove)
Removes(p) == proc[p].pc = "pruneRemove" /\ proc'[p] # proc[p]

\* the step of p completes pruneCache
Completes(p) == proc[p].pc # "done" /\ proc'[p].pc = "done"

\* C26: with no other writer, the entries left when pruneCache() completes
\* are those its scan kept: each has a cachedAt and was not past TTL at the
\* time the scan took (Date.now() of pruneCache), they are at most
\* MAX_CACHE_SIZE, and every entry removed although not past TTL has
\* cachedAt <= the cachedAt of every entry left.
C26_PrunePostcondition ==
  [][\A p \in DOMAIN proc :
       LET removed == IF proc'[p].pc = "pruneRemove" THEN proc'[p].toRemove
                      ELSE {}
           kept    == (DOMAIN cache) \ removed
       IN  /\ Scans(p) =>
                /\ removed \subseteq DOMAIN cache
                /\ \A k \in kept :
                     /\ cache[k].cachedAt # 0
                     /\ now - cache[k].cachedAt <= CACHE_TTL_MS
                /\ Cardinality(kept) <= MAX_CACHE_SIZE
                /\ \A k \in removed :
                     (cache[k].cachedAt # 0
                      /\ now - cache[k].cachedAt <= CACHE_TTL_MS)
                       => \A j \in kept :
                            cache[k].cachedAt <= cache[j].cachedAt
                /\ removed = {} <=> Completes(p)
                /\ UNCHANGED cache
           /\ Removes(p) =>
                /\ Completes(p)
                /\ cache' = [k \in (DOMAIN cache) \ proc[p].toRemove
                               |-> cache[k]]
           /\ cache' # cache => \E o \in DOMAIN proc : Removes(o)]_vars

\* pruneCache was called on NumEntries entries and has completed:
\* MAX_CACHE_SIZE entries are left, one of them aged exactly TTL
C26_Witness ==
  /\ Len(hist) = 1
  /\ hist[1][2] = NumEntries
  /\ \A p \in DOMAIN proc : proc[p].pc = "done"
  /\ Cardinality(DOMAIN cache) = MAX_CACHE_SIZE
  /\ \E k \in DOMAIN cache : now - cache[k].cachedAt = CACHE_TTL_MS

\* the cache writes completed by the invocations of S
RECURSIVE SumPuts(_)
SumPuts(S) ==
  IF S = {} THEN 0
  ELSE LET p == CHOOSE x \in S : TRUE
       IN  proc[p].puts + SumPuts(S \ {p})

\* C27: the persisted write counter counts every completed cache write and
\* is reset to 0 by the write that triggers pruneCache, so that it is the
\* number of completed writes modulo PRUNE_INTERVAL and every
\* PRUNE_INTERVAL-th write triggers the prune, however the writeCache calls
\* interleave.
C27_PruneCadence == writeCount = SumPuts(DOMAIN proc) % PRUNE_INTERVAL

(***************************************************************************)
(* The popup's "Clear cache" button (src/src/popup/popup.js), pressed      *)
(* while the service worker handles one resolve.  Invocation 1 is the      *)
(* resolve, invocation 2 the popup's onClearCache.                         *)
(***************************************************************************)
KEY_API_KEY == <<"a", "p", "i", "K", "e", "y">>

KEY_ENABLED == <<"e", "n", "a", "b", "l", "e", "d">>

KEY_CALLS_TODAY ==
  <<"a", "p", "i", "C", "a", "l", "l", "s", "T", "o", "d", "a", "y">>

KEY_CALLS_DATE ==
  <<"a", "p", "i", "C", "a", "l", "l", "s", "D", "a", "t", "e">>

PRUNE_COUNTER_KEY ==
  <<"_", "n", "r", "o", "_", "c", "a", "c", "h", "e", "W", "r", "i", "t", "e",
    "C", "o", "u", "n", "t">>

\* Object.keys(await chrome.storage.local.get(null))
StoreKeys ==
  (DOMAIN cache)
    \cup (IF apiKey # "" THEN {KEY_API_KEY} ELSE {})
    \cup {KEY_ENABLED}
    \cup (IF apiCallsDate # <<>> THEN {KEY_CALLS_TODAY, KEY_CALLS_DATE} ELSE {})
    \cup (IF writeCount # 0 THEN {PRUNE_COUNTER_KEY} ELSE {})

\* every key of the store taken for a cached rating
AnyKey(k) == TRUE

\* k.startsWith('rating_')
IsRatingKey(k) ==
  /\ Len(k) >= Len(CACHE_KEY_PREFIX)
  /\ SubSeq(k, 1, Len(CACHE_KEY_PREFIX)) = CACHE_KEY_PREFIX

\* onClearCache up to the return of storage.get(null): the keys are filtered,
\* and with none to remove the handler returns
OnClearCache(p) ==
  /\ proc[p].pc = "idle"
  /\ LET keys == {k \in StoreKeys : IsRatingKey(k)}
     IN  IF keys = {}
         THEN Set(p, [proc[p] EXCEPT !.pc = "done"])
         ELSE Set(p, [proc[p] EXCEPT !.pc = "clearRemove", !.toRemove = keys])
  /\ UNCHANGED <<store, lock, now, today, issued, hist, page>>

\* onClearCache: await chrome.storage.local.remove(keys)
ClearRemove(p) ==
  /\ proc[p].pc = "clearRemove"
  /\ LET keys == proc[p].toRemove
     IN  /\ cache' = Remove(cache, keys)
         /\ apiKey' = IF KEY_API_KEY \in keys THEN "" ELSE apiKey
         /\ apiCallsToday' = IF KEY_CALLS_TODAY \in keys THEN 0
                             ELSE apiCallsToday
         /\ apiCallsDate' = IF KEY_CALLS_DATE \in keys THEN <<>>
                            ELSE apiCallsDate
         /\ writeCount' = IF PRUNE_COUNTER_KEY \in keys THEN 0 ELSE writeCount
         /\ page' = IF KEY_ENABLED \in keys
                    THEN [page EXCEPT !.storedEnabled = TRUE] ELSE page
  /\ Set(p, [proc[p] EXCEPT !.pc = "clearReset"])
  /\ UNCHANGED <<lock, now, today, issued, hist>>

\* onClearCache: await chrome.storage.local.set({ _nro_cacheWriteCount: 0 });
\* refreshStats() after it only reads the store
ClearReset(p) ==
  /\ proc[p].pc = "clearReset"
  /\ writeCount' = 0
  /\ Set(p, [proc[p] EXCEPT !.pc = "done"])
  /\ UNCHANGED <<cache, apiCallsToday, apiCallsDate, apiKey, lock, now, today,
                 issued, hist, page>>

\* The store the button is pressed on: up to three cached ratings written at
\* time 1, one of them under the key of the first query, an API key, the
\* enabled flag either way, no call or one call made today, the write counter
\* at 0 or 1.
InitClear ==
  /\ \E keys \in SUBSET {KeyOf(1), KeyOf(2),
                         CacheKey([title |-> <<"A", "b">>, year |-> "2005",
                                   mediaType |-> "movie"])} :
       cache = [k \in keys |-> Processed(ById("tt1"), 1)]
  /\ \/ apiCallsToday = 0 /\ apiCallsDate = <<>>
     \/ apiCallsToday = 1 /\ apiCallsDate = <<0>>
  /\ writeCount \in {0, 1}
  /\ apiKey = "k"
  /\ lock = 0
  /\ now = 1
  /\ today = 0
  /\ proc = [p \in {1, 2} |-> Idle]
  /\ issued = 0
  /\ hist = <<>>
  /\ \E e \in BOOLEAN : page = [PageInit EXCEPT !.storedEnabled = e]

NextClear ==
  \/ \E q \in Queries : HandleFetchRating(1, q)
  \/ RemoveExpired(1)
  \/ GetApiKey(1)
  \/ CheckLimit(1)
  \/ OmdbResponse(1)
  \/ IncAcquire(1)
  \/ IncRead(1)
  \/ IncWrite(1)
  \/ IsOverLimit(1)
  \/ WcRead(1)
  \/ WcSet(1)
  \/ PruneRead(1)
  \/ PruneRemove(1)
  \/ OnClearCache(2)
  \/ ClearRemove(2)
  \/ ClearReset(2)
  \/ Tick

SpecClear == InitClear /\ [][NextClear]_vars

\* the step is one of onClearCache (p), which has no query and no cache key
Clears(p) ==
  /\ proc'[p] # proc[p]
  /\ proc'[p].key = <<>>
  /\ \/ proc[p].pc \in {"clearRemove", "clearReset"}
     \/ proc'[p].pc \in {"clearRemove", "clearReset"}
     \/ proc[p].pc = "idle" /\ proc'[p].pc = "done"

\* the step is one of pruneCache (p)
Prunes(p) ==
  /\ proc'[p] # proc[p]
  /\ proc[p].pc \in {"pruneRead", "pruneRemove"}

C29_DisableSticky ==
  [][/\ ~page'.enabled => page'.opacity = 0
     /\ ~page.enabled => page'.sent = page.sent]_vars

\* C30: a resolve that isOverLimit() cut short before its series query, its
\* keyword search or its detail query does not go on to cache a MissRecord.
C30_MissOnlyWhenExhausted ==
  [][\A p \in DOMAIN proc :
       ((\/ Checked(p, "beforeSeries")
         \/ Checked(p, "beforeSearch")
         \/ Checked(p, "beforeDetail")) /\ ~Permits(p))
         => ~(proc'[p].pc = "wcRead" /\ proc'[p].entry.notFound)]_vars

(***************************************************************************)
(* Claims about the quota lock.                                            *)
(***************************************************************************)
\* the incrementApiCalls() invocations past `while (_counterLock) await` and
\* not yet past their storage.set
Critical == {p \in DOMAIN proc : proc[p].pc \in {"incRead", "incWrite"}}

\* C31: at most one incrementApiCalls() invocation is between its read of
\* (apiCallsToday, apiCallsDate) and its write of the incremented pair, the
\* one _counterLock stands for.
C31_MutualExclusion ==
  /\ Cardinality(Critical) <= 1
  /\ \A p \in Critical : lock = p

\* one invocation has read the pair and not yet written it, while two others
\* wait on _counterLock
C31_Witness ==
  /\ \E p \in DOMAIN proc : proc[p].pc = "incWrite" /\ lock = p
  /\ Cardinality({p \in DOMAIN proc : proc[p].pc = "incAcquire"}) = 2


(***************************************************************************)
(* The quota lock with storage that can fail: NumLockers callers call      *)
(* incrementApiCalls() again and again, each storage operation inside the  *)
(* try block returns or throws.  A storage operation that was issued       *)
(* settles (WF); a waiter woken by unlock() re-runs its loop test before   *)
(* any caller that arrives later, promise reactions running in the order   *)
(* they were registered, so a waiter is not passed over for ever (SF).     *)
(***************************************************************************)
NumLockers == 3

MaxCount == 2

\* err.message of a rejected chrome.storage.local.get() or set()
ERR_STORAGE == "storage error"

\* the lock left as it was when the try block throws
NoFinally(l) == l

\* finally { _counterLock = null; unlock(); } on a throw out of the try block
Finally(l) == 0

\* incrementApiCalls() is called, by a caller whose last call has returned
IncCall(p) ==
  /\ proc[p].pc \in {"idle", "done"}
  /\ apiCallsToday < MaxCount
  /\ Set(p, [Idle EXCEPT !.pc = "incAcquire", !.stage = "incOnly"])
  /\ UNCHANGED <<store, lock, now, today, issued, hist, page>>

\* await chrome.storage.local.get([...]) throws: finally, then the rejection
IncReadThrows(p) ==
  /\ proc[p].pc = "incRead"
  /\ lock' = Finally(lock)
  /\ Set(p, Finish(proc[p], ErrorResult(ERR_STORAGE)))
  /\ UNCHANGED <<store, now, today, issued, hist, page>>

\* await chrome.storage.local.set({...}) throws: finally, then the rejection
IncWriteThrows(p) ==
  /\ proc[p].pc = "incWrite"
  /\ lock' = Finally(lock)
  /\ Set(p, Finish(proc[p], ErrorResult(ERR_STORAGE)))
  /\ UNCHANGED <<store, now, today, issued, hist, page>>

InitLock ==
  /\ cache = <<>>
  /\ apiCallsToday = 0
  /\ apiCallsDate = <<>>
  /\ writeCount = 0
  /\ apiKey = "k"
  /\ lock = 0
  /\ now = 1
  /\ today = 0
  /\ proc = [p \in 1..NumLockers |-> Idle]
  /\ issued = 0
  /\ hist = <<>>
  /\ page = PageInit

NextLock ==
  \/ \E p \in 1..NumLockers : IncCall(p)
  \/ \E p \in 1..NumLockers : IncAcquire(p)
  \/ \E p \in 1..NumLockers : IncRead(p)
  \/ \E p \in 1..NumLockers : IncReadThrows(p)
  \/ \E p \in 1..NumLockers : IncWrite(p)
  \/ \E p \in 1..NumLockers : IncWriteThrows(p)

SpecLock ==
  /\ InitLock
  /\ [][NextLock]_vars
  /\ \A p \in 1..NumLockers :
       /\ SF_vars(IncAcquire(p))
       /\ WF_vars(IncRead(p) \/ IncReadThrows(p))
       /\ WF_vars(IncWrite(p) \/ IncWriteThrows(p))

\* C32: every incrementApiCalls() call returns (or rejects), whatever the
\* other callers do and whether the storage operations of the critical
\* section return or throw, and no lock is left behind by a call that is out
\* of its critical section.
C32_LockLive ==
  /\ \A p \in 1..NumLockers :
       (proc[p].pc \in {"incAcquire", "incRead", "incWrite"})
         ~> (proc[p].pc = "done")
  /\ [](Critical = {} => lock = 0)

\* a call has rejected with the storage error, another call is in its
\* critical section and a third waits
C32_Witness ==
  /\ \E p \in DOMAIN proc :
       proc[p].pc = "done" /\ proc[p].result.error = ERR_STORAGE
  /\ \E p \in DOMAIN proc : proc[p].pc = "incWrite" /\ lock = p
  /\ \E p \in DOMAIN proc : proc[p].pc = "incAcquire"


(***************************************************************************)
(* Lazy expiry: two concurrent resolves of one query whose entry, written  *)
(* by an earlier resolve, is one tick short of being past TTL, as is the   *)
(* entry of another query.                                                 *)
(***************************************************************************)
ExpiryQuery == [title |-> <<"A", "b">>, year |-> "2005", mediaType |-> "movie"]

OtherQuery == [title |-> <<"A", "b">>, year |-> "", mediaType |-> ""]

InitExpiry ==
  /\ cache = Put(Put(<<>>, CacheKey(ExpiryQuery), Processed(ById("tt1"), 1)),
                 CacheKey(OtherQuery), Processed(ById("tt1"), 1))
  /\ apiCallsToday = 0
  /\ apiCallsDate = <<>>
  /\ writeCount = 0
  /\ apiKey = "k"
  /\ lock = 0
  /\ now = CACHE_TTL_MS + 1
  /\ today = 0
  /\ proc = [p \in Procs |-> Idle]
  /\ issued = 0
  /\ hist = <<>>
  /\ page = PageInit

NextExpiry ==
  \/ \E p \in Procs : HandleFetchRating(p, ExpiryQuery)
  \/ \E p \in Procs : RemoveExpired(p)
  \/ \E p \in Procs : GetApiKey(p)
  \/ \E p \in Procs : CheckLimit(p)
  \/ \E p \in Procs : OmdbResponse(p)
  \/ \E p \in Procs : IncAcquire(p)
  \/ \E p \in Procs : IncRead(p)
  \/ \E p \in Procs : IncWrite(p)
  \/ \E p \in Procs : WcRead(p)
  \/ \E p \in Procs : WcSet(p)
  \/ \E p \in Procs : PruneRead(p)
  \/ \E p \in Procs : PruneRemove(p)
  \/ Tick

SpecExpiry == InitExpiry /\ [][NextExpiry]_vars

\* the step of p is the storage.remove(key) of getCached
Expires(p) == proc[p].pc = "removeExpired" /\ proc'[p] # proc[p]

\* C33: the storage.remove(key) that getCached issues for an expired entry
\* deletes no entry that is not past TTL, whatever another resolve wrote under
\* the key since getCached read it.
C33_ExpiryRaceFree ==
  [][\A p \in DOMAIN proc :
       Expires(p) =>
         \A k \in DOMAIN cache \ DOMAIN cache' : Expired(cache[k], now)]_vars


(***************************************************************************)
(* Claims about concurrent resolves of one key (Spec).                     *)
(***************************************************************************)
\* the resolve p is under way and has not written the cache
UnderWay(p) == proc[p].pc \notin {"idle", "done"} /\ proc[p].puts = 0

\* C34: of the resolves of one cache key that are under way together, the key
\* uncached since before they started, at most one has issued upstream calls.
C34_SingleFlight ==
  \A p, r \in DOMAIN proc :
    (/\ p # r
     /\ UnderWay(p) /\ UnderWay(r)
     /\ proc[p].key = proc[r].key
     /\ proc[p].key \notin DOMAIN cache)
      => ~(proc[p].calls > 0 /\ proc[r].calls > 0)


(***************************************************************************)
(* Claims about what the overlay shows (SpecPage).                         *)
(***************************************************************************)
\* the step renders the badges of the response to request r
Renders(r) ==
  /\ r \in page.requests
  /\ r \notin page'.requests
  /\ page.rendered # r.id
  /\ page'.rendered = r.id
  /\ page'.opacity = 1

\* C35: the badges of a response are rendered on the element the request was
\* sent for: a response requested for element A is not rendered while another
\* element B is the hovered one.
C35_RatingOfHovered ==
  [][\A r \in page.requests : Renders(r) => page.hoveredEl = r.el]_vars


(***************************************************************************)
(* Title matching alone: isTitleMatch and titleSimilarity called on a      *)
(* query title and the Title of a candidate record, both made of up to     *)
(* MaxWords pieces joined by single spaces.  The pieces are a two-letter   *)
(* word, the same word capitalised, another word, a one-letter word, a     *)
(* piece without a letter or digit, and the empty piece (which gives       *)
(* leading, trailing and double spaces).                                   *)
(***************************************************************************)
MaxWords == 3

Pieces == {<<"a", "b">>, <<"A", "b">>, <<"c", "d">>, <<"a">>, <<"!">>, <<>>}

RECURSIVE Join(_)
Join(ws) ==
  IF Len(ws) = 0 THEN <<>>
  ELSE IF Len(ws) = 1 THEN ws[1]
  ELSE ws[1] \o <<" ">> \o Join(Tail(ws))

Titles == {Join(ws) : ws \in UNION {[1..n -> Pieces] : n \in 0..MaxWords}}

\* the results returned so far, by call
Noted(h, call, res) ==
  [c \in (DOMAIN h) \cup {call} |-> IF c = call THEN res ELSE h[c]]

\* isTitleMatch(title, exact.Title) is called and returns
IsTitleMatch(p) ==
  /\ "isTitleMatch" \notin DOMAIN hist
  /\ hist' = Noted(hist, "isTitleMatch",
                   isTitleMatch(proc[p].q.title, proc[p].exact.Title))
  /\ UNCHANGED <<store, lock, now, today, proc, issued, page>>

\* titleSimilarity(queryTitle, c.Title) is called and returns
TitleSimilarity(p) ==
  /\ "titleSimilarity" \notin DOMAIN hist
  /\ hist' = Noted(hist, "titleSimilarity",
                   titleSimilarity(proc[p].q.title, proc[p].exact.Title))
  /\ UNCHANGED <<store, lock, now, today, proc, issued, page>>

\* titleSimilarity is called with the two titles the other way round
TitleSimilaritySwapped(p) ==
  /\ "swapped" \notin DOMAIN hist
  /\ hist' = Noted(hist, "swapped",
                   titleSimilarity(proc[p].exact.Title, proc[p].q.title))
  /\ UNCHANGED <<store, lock, now, today, proc, issued, page>>

InitTitle ==
  /\ cache = <<>>
  /\ apiCallsToday = 0
  /\ apiCallsDate = <<>>
  /\ writeCount = 0
  /\ apiKey = "k"
  /\ lock = 0
  /\ now = 1
  /\ today = 0
  /\ \E a \in Titles : \E b \in Titles :
       proc = [p \in {1} |->
                 [Idle EXCEPT !.q = [title |-> a, year |-> "", mediaType |-> ""],
                              !.exact = Movie(b, "2005", "tt1", "8.8", <<>>,
                                              "p", "movie")]]
  /\ issued = 0
  /\ hist = <<>>
  /\ page = PageInit

NextTitle ==
  \/ IsTitleMatch(1)
  \/ TitleSimilarity(1)
  \/ TitleSimilaritySwapped(1)

SpecTitle == InitTitle /\ [][NextTitle]_vars

(***************************************************************************)
(* Claims about title matching (SpecTitle).                                *)
(***************************************************************************)
\* the fraction s is at least 0.7
AtLeast07(s) == 10 * s[1] >= 7 * s[2]

\* C36: isTitleMatch(query, candidate) is true exactly when
\* titleSimilarity(query, candidate) >= 0.7.
C36_GateAgrees ==
  {"isTitleMatch", "titleSimilarity"} \subseteq DOMAIN hist
    => (hist["isTitleMatch"] <=> AtLeast07(hist["titleSimilarity"]))

\* both have returned for two titles of which neither contains the other
\* once normalized, accepted on the words they share
C36_Witness ==
  /\ {"isTitleMatch", "titleSimilarity"} \subseteq DOMAIN hist
  /\ hist["isTitleMatch"]
  /\ LET q == normalize(proc[1].q.title)
         r == normalize(proc[1].exact.Title)
     IN  ~Includes(q, r) /\ ~Includes(r, q)


\* the fractions s and t are the same number
SameScore(s, t) == s[1] * t[2] = t[1] * s[2]

\* the calls of titleSimilarity both ways have returned
BothWays == {"titleSimilarity", "swapped"} \subseteq DOMAIN hist

\* the value of titleSimilarity lies in [0, 1]
C37_InRange ==
  "titleSimilarity" \in DOMAIN hist =>
    LET s == hist["titleSimilarity"]
    IN  s[2] > 0 /\ 0 <= s[1] /\ s[1] <= s[2]

\* titleSimilarity(a, b) == titleSimilarity(b, a)
C37_Symmetric ==
  BothWays => SameScore(hist["titleSimilarity"], hist["swapped"])

\* titleSimilarity(a, b) is 1 only when normalize(a) == normalize(b)
C37_ExactOnlyEqual ==
  "titleSimilarity" \in DOMAIN hist =>
    (SameScore(hist["titleSimilarity"], <<1, 1>>)
       => normalize(proc[1].q.title) = normalize(proc[1].exact.Title))

\* C37: titleSimilarity is symmetric, its value lies in [0, 1], and it is 1
\* only for titles whose normalized forms are equal.
C37_SymmetricExact ==
  C37_InRange /\ C37_Symmetric /\ C37_ExactOnlyEqual

\* the query title is not empty and has no character of [a-z0-9] once
\* lowercased, the candidate's title has one
NoComparable ==
  /\ Len(proc[1].q.title) > 0
  /\ normalize(proc[1].q.title) = <<>>
  /\ normalize(proc[1].exact.Title) # <<>>

\* C38: for a query title that is not empty and normalizes to the empty
\* string, and a candidate whose normalized title is not empty, isTitleMatch
\* is false and titleSimilarity is 0.
C38_EmptyMatchesNothing ==
  NoComparable =>
    /\ "isTitleMatch" \in DOMAIN hist => ~hist["isTitleMatch"]
    /\ "titleSimilarity" \in DOMAIN hist => hist["titleSimilarity"][1] = 0

====
